---------------------------- MODULE Spec2Model ----------------------------
(***************************************************************************)
(* Appointment ledger (app/appointment_store.py) and waitlist registry     *)
(* (app/waitlist.py) of the receptionist service, with the notification    *)
(* dispatcher (app/sms.py) seen at its boundary.                           *)
(*                                                                         *)
(* Python values are represented as follows.                               *)
(*   dict keyed by id      a sequence of records in insertion order with   *)
(*                          pairwise distinct ids (dict order is insertion  *)
(*                          order; assigning to a present key replaces the  *)
(*                          value in place)                                 *)
(*   list                  a sequence                                      *)
(*   Optional[x]           <<>> for None, <<x>> otherwise                   *)
(*   phone numbers         what the JSON arguments held: a str, given by   *)
(*                          its characters (sms._send looks at the first),  *)
(*                          or a number                                     *)
(*   dates "YYYY-MM-DD"    day numbers (ISO dates compare like them)        *)
(*   notes                 the sequence of pieces that += concatenates      *)
(*   uuid4()[:8].upper()   any element of the id space, used or not        *)
(*   datetime.utcnow()     the clock `now`, in minutes; the handlers read   *)
(*                          it and never wait; it moves between handlers in *)
(*                          the specifications that run the timed job       *)
(***************************************************************************)
EXTENDS Integers, Sequences, FiniteSets, TLC

VARIABLES
    appointments,   \* appointment_store.appointments
    waitlist,       \* waitlist.waitlist
    now,            \* UTC wall clock, minutes
    call,           \* the handler that ran last, with its arguments
    ret,            \* what that handler returned
    sent,           \* the dispatcher calls that handler made, in order
    sessions,       \* where each client that is followed stands between
                    \* its tool calls, and what it was told
    zones,          \* the UTC offsets, in minutes, of the configured office
                    \* timezone and of the zone the process runs in
    expired         \* the positions of the waitlist entries whose offer a
                    \* sweep reset, in the specification that follows them

vars == <<appointments, waitlist, now, call, ret, sent, sessions, zones, expired>>

----------------------------------------------------------------------------
(* Bounds of the model *)

MaxLedgerWaitlist == 1  \* longest waitlist explored beside a full ledger
MaxWaitlist == 4        \* longest waitlist explored beside a small ledger
MaxReschedules == 1     \* times one record is rescheduled
MaxSweptWaitlist == 2   \* longest waitlist explored beside the clock
MaxSeededWaitlist == 2  \* longest registry the matching query starts from
MaxDispatchWaitlist == 1  \* longest waitlist explored beside failing dispatches
MaxFifoWaitlist == 2    \* longest waitlist followed through sweeps
LastDay == 11           \* last day of the clock that fires the daily jobs

----------------------------------------------------------------------------
(* Optional values *)

None == <<>>

Some(x) == <<x>>

----------------------------------------------------------------------------
(* Slot catalog and roster: appointment_store.py *)

PROVIDER_NAMES == <<"Dr. Smith", "Dr. Johnson", "Dr. Patel">>

SLOT_TIMES ==
    << "8:00 AM", "8:30 AM", "9:00 AM", "9:30 AM",
       "10:00 AM", "10:30 AM", "11:00 AM", "11:30 AM",
       "1:00 PM", "1:30 PM", "2:00 PM", "2:30 PM",
       "3:00 PM", "3:30 PM", "4:00 PM" >>

\* settings.intake_form_url, "" unless configured
INTAKE_FORM_URL == ""

\* matches[:3] in cancel_appointment
OfferCap == 3

\* free[:6] in get_available_slots
SlotCap == 6

\* _next_business_days(5) in get_available_slots
DaysAhead == 5

\* d.weekday() < 5: Monday to Friday
WorkDays == 5

DaysPerWeek == 7

APPOINTMENT_TYPES ==
    << "New Patient", "Follow-Up", "Sick Visit / Urgent", "Annual Physical",
       "Lab Review", "Vaccination", "Telehealth" >>

\* hours_elapsed >= 2 in _reset_stale_waitlist_offers
StaleHours == 2

\* total_seconds() / 3600, on a clock that counts minutes
MinutesPerHour == 60

----------------------------------------------------------------------------
(* dict operations on a sequence of records with distinct ids *)

Keys(d) == {d[i].id : i \in 1..Len(d)}

\* d.get(k): the record, or None
dict_get(d, k) ==
    IF k \in Keys(d)
    THEN Some(d[CHOOSE i \in 1..Len(d) : d[i].id = k])
    ELSE None

\* d[k] = v
dict_set(d, k, v) ==
    IF k \in Keys(d)
    THEN [i \in 1..Len(d) |-> IF d[i].id = k THEN v ELSE d[i]]
    ELSE Append(d, v)

----------------------------------------------------------------------------
(* Notification dispatcher: sms.py *)

\* a phone number as the handlers receive it from the arguments of a tool
\* call, which nothing validates: a str or a JSON number
Str(chars) == [str |-> chars]

Number(n) == [int |-> n]

is_str(value) == "str" \in DOMAIN value

\* `if phone`, `not to`: the empty str and the number 0 are false
truthy(value) == IF is_str(value) THEN value.str # <<>> ELSE value.int # 0

\* to.startswith: AttributeError for a value that is not a str, raised
\* before the try of _send
send_raises(to) == truthy(to) /\ ~is_str(to)

\* _send for a value it does not raise for: False for an empty number or
\* one not starting with "+", else whether the transport took the message
\* (an exception there is caught).
\* twilio_up: whether messages.create succeeds.
_send(to, twilio_up) ==
    IF ~truthy(to) \/ to.str[1] # "+" THEN FALSE ELSE twilio_up

Notification(kind, to, ok) == [kind |-> kind, to |-> to, ok |-> ok]

\* a dispatcher call that raised
Raised(kind, to) == [kind |-> kind, to |-> to, raised |-> TRUE]

send_appointment_confirmation(phone, twilio_up) ==
    Notification("confirmation", phone, _send(phone, twilio_up))

send_intake_form_link(phone, twilio_up) ==
    Notification("intake", phone,
                 IF INTAKE_FORM_URL = "" THEN FALSE ELSE _send(phone, twilio_up))

send_appointment_rescheduled(phone, twilio_up) ==
    Notification("rescheduled", phone, _send(phone, twilio_up))

send_appointment_cancelled(phone, twilio_up) ==
    Notification("cancelled", phone, _send(phone, twilio_up))

send_waitlist_offer(phone, twilio_up) ==
    Notification("waitlist_offer", phone, _send(phone, twilio_up))

----------------------------------------------------------------------------
(* Waitlist registry: waitlist.py *)

\* mutant: an id that no entry has falls on the last entry
first_with_id_or_last(wl, waitlist_id) ==
    IF \E i \in 1..Len(wl) : wl[i].id = waitlist_id
    THEN CHOOSE i \in 1..Len(wl) :
            /\ wl[i].id = waitlist_id
            /\ \A j \in 1..(i - 1) : wl[j].id # waitlist_id
    ELSE Len(wl)

\* the first entry with this id, 0 when there is none
FirstWithId(wl, waitlist_id) ==
    IF \E i \in 1..Len(wl) : wl[i].id = waitlist_id
    THEN CHOOSE i \in 1..Len(wl) :
            /\ wl[i].id = waitlist_id
            /\ \A j \in 1..(i - 1) : wl[j].id # waitlist_id
    ELSE 0

InSeq(x, s) == \E i \in 1..Len(s) : s[i] = x

\* mutant: the status of the entry is not looked at
is_match_any_status(entry, date_str, provider) ==
    /\ (entry.provider = None \/ entry.provider = Some(provider))
    /\ (entry.preferred_dates = <<>> \/ InSeq(date_str, entry.preferred_dates))

IsMatch(entry, date_str, provider) ==
    /\ entry.status = "waiting"
    /\ (entry.provider = None \/ entry.provider = Some(provider))
    /\ (entry.preferred_dates = <<>> \/ InSeq(date_str, entry.preferred_dates))

find_matches(wl, date_str, provider) ==
    SelectSeq(wl, LAMBDA entry : IsMatch(entry, date_str, provider))

mark_offered(wl, waitlist_id, utcnow) ==
    LET i == FirstWithId(wl, waitlist_id)
    IN  IF i = 0 THEN wl
        ELSE [wl EXCEPT ![i].status = "offered", ![i].offered_at = Some(utcnow)]

mark_booked(wl, waitlist_id) ==
    LET i == FirstWithId(wl, waitlist_id)
    IN  IF i = 0 THEN wl ELSE [wl EXCEPT ![i].status = "booked"]

----------------------------------------------------------------------------
(* Appointment ledger: appointment_store.py *)

\* mutant: the status is compared with a misspelt literal
booked_slots_misspelt(date_str, provider) ==
    { appointments[i].time : i \in
        { j \in 1..Len(appointments) :
            /\ appointments[j].date = date_str
            /\ appointments[j].provider = provider
            /\ appointments[j].status = "Scheduled" } }

\* mutant: the date test is inverted
booked_slots_other_dates(date_str, provider) ==
    { appointments[i].time : i \in
        { j \in 1..Len(appointments) :
            /\ appointments[j].date # date_str
            /\ appointments[j].provider = provider
            /\ appointments[j].status = "scheduled" } }

\* mutant: only the first record of the ledger is looked at
booked_slots_first_only(date_str, provider) ==
    { appointments[i].time : i \in
        { j \in 1..Len(appointments) :
            /\ j = 1
            /\ appointments[j].date = date_str
            /\ appointments[j].provider = provider
            /\ appointments[j].status = "scheduled" } }

\* mutant: a cancelled record keeps holding its slot
booked_slots_any_status(date_str, provider) ==
    { appointments[i].time : i \in
        { j \in 1..Len(appointments) :
            /\ appointments[j].date = date_str
            /\ appointments[j].provider = provider } }

_booked_slots(date_str, provider) ==
    { appointments[i].time : i \in
        { j \in 1..Len(appointments) :
            /\ appointments[j].date = date_str
            /\ appointments[j].provider = provider
            /\ appointments[j].status = "scheduled" } }

Head3(s) == SubSeq(s, 1, IF Len(s) < OfferCap THEN Len(s) ELSE OfferCap)

\* the loop of cancel_appointment over matches[:3]: one offer and one
\* mark_offered per match, each mark_offered seeing the marks before it
RECURSIVE OfferLoop(_, _, _)
OfferLoop(wl, matches, utcnow) ==
    IF matches = <<>> THEN wl
    ELSE OfferLoop(mark_offered(wl, Head(matches).id, utcnow),
                   Tail(matches), utcnow)

OfferNotifications(matches, twilio_up) ==
    [i \in 1..Len(matches) |->
        send_waitlist_offer(matches[i].patient_phone, twilio_up)]

\* the records a loop over the dispatcher gets through: those before the
\* first one whose send raises
UntilRaise(records) ==
    LET raising == {i \in 1..Len(records) :
                      send_raises(records[i].patient_phone)}
    IN  IF raising = {} THEN records
        ELSE SubSeq(records, 1,
                    (CHOOSE i \in raising : \A j \in raising : i <= j) - 1)

\* the dispatcher call that ended the loop, if one did
RaisedAt(records, kind) ==
    IF UntilRaise(records) = records THEN <<>>
    ELSE <<Raised(kind, records[Len(UntilRaise(records)) + 1].patient_phone)>>

----------------------------------------------------------------------------
(* uuid4()[:8].upper(): eight hexadecimal digits, with nothing that keeps  *)
(* a draw apart from the draws before it.  The draws explored:             *)

ApptIds == {"1A2B3C4D", "9F8E7D6C"}

WaitlistIds == {"0C0FFEE0", "7E57AB1E"}

\* an id no draw produced
UnknownId == "00000000"

----------------------------------------------------------------------------
(* Handlers.  Each is the whole function: its early returns, its writes,   *)
(* the dispatcher calls it makes and its return value.                     *)

Call(op, args) == [op |-> op, args |-> args]

\* {"error": ...}: the three kinds of message the ledger returns.  The
\* reschedule message for a record that is not scheduled names its status.
Error(kind) == [error |-> kind]

InvalidState(status) == [error |-> "InvalidState", status |-> status]

Success(record) == [success |-> TRUE, appointment |-> record]

\* an early return: nothing written, nothing sent
Refuse(error) ==
    /\ ret' = error
    /\ sent' = <<>>
    /\ UNCHANGED <<appointments, waitlist, now>>

schedule_appointment(patient_name, patient_dob, patient_phone, provider, appointment_type, date_str, time_str, notes, is_new_patient) ==
    /\ call' = Call("schedule_appointment",
                    [patient_name |-> patient_name, patient_dob |-> patient_dob,
                     patient_phone |-> patient_phone, provider |-> provider,
                     appointment_type |-> appointment_type,
                     date |-> date_str, time |-> time_str, notes |-> notes,
                     is_new_patient |-> is_new_patient])
    /\ IF time_str \in _booked_slots(date_str, provider)
       THEN Refuse(Error("Conflict"))
       ELSE \E appt_id \in ApptIds, twilio_up \in BOOLEAN :
            LET record ==
                    [id |-> appt_id,
                     patient_name |-> patient_name,
                     patient_dob |-> patient_dob,
                     patient_phone |-> patient_phone,
                     provider |-> provider,
                     appointment_type |-> appointment_type,
                     date |-> date_str,
                     time |-> time_str,
                     notes |-> <<<<notes>>>>,
                     is_new_patient |-> is_new_patient,
                     status |-> "scheduled",
                     created_at |-> now]
            IN  /\ appointments' = dict_set(appointments, appt_id, record)
                /\ sent' = IF send_raises(patient_phone)
                           THEN <<Raised("confirmation", patient_phone)>>
                           ELSE <<send_appointment_confirmation(patient_phone,
                                                                twilio_up)>>
                                \o (IF is_new_patient
                                    THEN <<send_intake_form_link(patient_phone,
                                                                 twilio_up)>>
                                    ELSE <<>>)
                /\ ret' = Success(record)
                /\ UNCHANGED <<waitlist, now>>

\* mutant: the status of the record is not looked at
reschedule_error_any_status(found, new_date, new_time) ==
    IF found = None THEN Some(Error("NotFound"))
    ELSE IF new_time \in _booked_slots(new_date, found[1].provider)
    THEN Some(Error("Conflict"))
    ELSE None

\* the early returns of reschedule_appointment: the error, or None
reschedule_error(found, new_date, new_time) ==
    IF found = None THEN Some(Error("NotFound"))
    ELSE IF found[1].status # "scheduled"
    THEN Some(InvalidState(found[1].status))
    ELSE IF new_time \in _booked_slots(new_date, found[1].provider)
    THEN Some(Error("Conflict"))
    ELSE None

\* mutant: the date is not written
rescheduled_time_only(appt, new_date, new_time) ==
    [appt EXCEPT !.time = new_time,
                 !.notes = Append(@, <<"Rescheduled to", new_date, new_time>>)]

\* the writes of reschedule_appointment to the record
rescheduled(appt, new_date, new_time) ==
    [appt EXCEPT !.date = new_date,
                 !.time = new_time,
                 !.notes = Append(@, <<"Rescheduled to", new_date, new_time>>)]

\* mutant: the slot a rescheduling vacates is offered to the waitlist
reschedule_appointment_backfill(appointment_id, new_date, new_time) ==
    /\ call' = Call("reschedule_appointment",
                    [appointment_id |-> appointment_id,
                     new_date |-> new_date, new_time |-> new_time])
    /\ LET found == dict_get(appointments, appointment_id)
           error == reschedule_error(found, new_date, new_time)
       IN  IF error # None
           THEN Refuse(error[1])
           ELSE LET appt == rescheduled(found[1], new_date, new_time)
                    matches == Head3(find_matches(waitlist, found[1].date,
                                                  found[1].provider))
                IN  /\ appointments' =
                           dict_set(appointments, appointment_id, appt)
                    /\ waitlist' = OfferLoop(waitlist, UntilRaise(matches), now)
                    /\ \E twilio_up \in BOOLEAN :
                         sent' = IF send_raises(appt.patient_phone)
                                 THEN <<Raised("rescheduled", appt.patient_phone)>>
                                 ELSE <<send_appointment_rescheduled(
                                            appt.patient_phone, twilio_up)>>
                    /\ ret' = Success(appt)
                    /\ UNCHANGED now

reschedule_appointment(appointment_id, new_date, new_time) ==
    /\ call' = Call("reschedule_appointment",
                    [appointment_id |-> appointment_id,
                     new_date |-> new_date, new_time |-> new_time])
    /\ LET found == dict_get(appointments, appointment_id)
           error == reschedule_error(found, new_date, new_time)
       IN  IF error # None
           THEN Refuse(error[1])
           ELSE LET appt == rescheduled(found[1], new_date, new_time)
                IN  /\ appointments' =
                           dict_set(appointments, appointment_id, appt)
                    /\ \E twilio_up \in BOOLEAN :
                         sent' = IF send_raises(appt.patient_phone)
                                 THEN <<Raised("rescheduled", appt.patient_phone)>>
                                 ELSE <<send_appointment_rescheduled(
                                            appt.patient_phone, twilio_up)>>
                    /\ ret' = Success(appt)
                    /\ UNCHANGED <<waitlist, now>>

\* mutant: a cancelled record is cancelled again
cancel_error_unknown_only(found) ==
    IF found = None THEN Some(Error("NotFound")) ELSE None

\* the early returns of cancel_appointment: the error, or None
cancel_error(found) ==
    IF found = None THEN Some(Error("NotFound"))
    ELSE IF found[1].status = "cancelled" THEN Some(Error("InvalidState"))
    ELSE None

\* mutant: the status is not written
cancelled_note_only(appt, reason) ==
    [appt EXCEPT !.notes = Append(@, IF reason # ""
                                     THEN <<"Cancelled", reason>>
                                     ELSE <<"Cancelled">>)]

\* the writes of cancel_appointment to the record
cancelled(appt, reason) ==
    [appt EXCEPT !.status = "cancelled",
                 !.notes = Append(@, IF reason # ""
                                     THEN <<"Cancelled", reason>>
                                     ELSE <<"Cancelled">>)]

\* mutant: no except around the offers, so that an offer that raises ends
\* the call with its exception
cancel_appointment_unguarded(appointment_id, reason) ==
    /\ call' = Call("cancel_appointment",
                    [appointment_id |-> appointment_id, reason |-> reason])
    /\ LET found == dict_get(appointments, appointment_id)
           error == cancel_error(found)
       IN  IF error # None
           THEN Refuse(error[1])
           ELSE LET appt == cancelled(found[1], reason)
                    matches == Head3(find_matches(waitlist, appt.date,
                                                  appt.provider))
                IN  /\ appointments' =
                           dict_set(appointments, appointment_id, appt)
                    /\ waitlist' = OfferLoop(waitlist, UntilRaise(matches), now)
                    /\ \E twilio_up \in BOOLEAN :
                         sent' = (IF send_raises(appt.patient_phone)
                                  THEN <<Raised("cancelled", appt.patient_phone)>>
                                  ELSE <<send_appointment_cancelled(
                                             appt.patient_phone, twilio_up)>>)
                                 \o OfferNotifications(UntilRaise(matches),
                                                       twilio_up)
                                 \o RaisedAt(matches, "waitlist_offer")
                    /\ ret' = IF RaisedAt(matches, "waitlist_offer") = <<>>
                              THEN Success(appt)
                              ELSE Error("AttributeError")
                    /\ UNCHANGED now

cancel_appointment(appointment_id, reason) ==
    /\ call' = Call("cancel_appointment",
                    [appointment_id |-> appointment_id, reason |-> reason])
    /\ LET found == dict_get(appointments, appointment_id)
           error == cancel_error(found)
       IN  IF error # None
           THEN Refuse(error[1])
           ELSE LET appt == cancelled(found[1], reason)
                    matches == Head3(find_matches(waitlist, appt.date,
                                                  appt.provider))
                IN  /\ appointments' =
                           dict_set(appointments, appointment_id, appt)
                    /\ waitlist' = OfferLoop(waitlist, UntilRaise(matches), now)
                    /\ \E twilio_up \in BOOLEAN :
                         sent' = (IF send_raises(appt.patient_phone)
                                  THEN <<Raised("cancelled", appt.patient_phone)>>
                                  ELSE <<send_appointment_cancelled(
                                             appt.patient_phone, twilio_up)>>)
                                 \o OfferNotifications(UntilRaise(matches),
                                                       twilio_up)
                                 \o RaisedAt(matches, "waitlist_offer")
                    /\ ret' = Success(appt)
                    /\ UNCHANGED now

----------------------------------------------------------------------------
(* Ledger queries: appointment_store.py *)

\* date.weekday(); day 0 of the calendar is a Monday
weekday(d) == d % DaysPerWeek

RECURSIVE BusinessDaysFrom(_, _)
BusinessDaysFrom(d, n) ==
    IF n = 0 THEN <<>>
    ELSE IF weekday(d) < WorkDays
    THEN <<d>> \o BusinessDaysFrom(d + 1, n - 1)
    ELSE BusinessDaysFrom(d + 1, n)

\* mutant: the walk starts on the current date
next_business_days_from_today(today, n) == BusinessDaysFrom(today, n)

\* today: date.today()
_next_business_days(today, n) == BusinessDaysFrom(today + 1, n)

\* s[:n]
Take(s, n) == SubSeq(s, 1, IF Len(s) < n THEN Len(s) ELSE n)

\* `if provider`: neither None nor the empty string
Truthy(optional) == optional # None /\ optional[1] # ""

\* mutant: the booked slots are not taken out
free_slots_all(day, prov) == SLOT_TIMES

\* free = [t for t in SLOT_TIMES if t not in booked]
free_slots(day, prov) ==
    SelectSeq(SLOT_TIMES, LAMBDA t : t \notin _booked_slots(day, prov))

\* mutant: every free slot is listed
listed_times_uncapped(free) == free

\* free[:6]
listed_times(free) == Take(free, SlotCap)

\* the inner loop of get_available_slots: one item per provider with a
\* free slot, in roster order
day_slots(day, providers_to_check) ==
    SelectSeq([i \in 1..Len(providers_to_check) |->
                  [provider |-> providers_to_check[i],
                   times |-> listed_times(
                                 free_slots(day, providers_to_check[i]))]],
              LAMBDA item : item.times # <<>>)

\* the availability dict, as the sequence of its items in insertion order
availability(requested_date, provider, today) ==
    LET providers_to_check ==
            IF Truthy(provider) THEN <<provider[1]>> ELSE PROVIDER_NAMES
        days_to_check ==
            IF requested_date # None THEN <<requested_date[1]>>
            ELSE _next_business_days(today, DaysAhead)
    IN  SelectSeq([i \in 1..Len(days_to_check) |->
                      [day |-> days_to_check[i],
                       slots |-> day_slots(days_to_check[i],
                                           providers_to_check)]],
                  LAMBDA item : item.slots # <<>>)

get_available_slots(requested_date, provider, today) ==
    /\ call' = Call("get_available_slots",
                    [requested_date |-> requested_date, provider |-> provider,
                     today |-> today])
    /\ ret' = [available |-> availability(requested_date, provider, today),
               providers |-> PROVIDER_NAMES,
               appointment_types |-> APPOINTMENT_TYPES]
    /\ sent' = <<>>
    /\ UNCHANGED <<appointments, waitlist, now>>

\* str.lower() on a name given as its characters
UpperCase ==
    << "A", "B", "C", "D", "E", "F", "G", "H", "I", "J", "K", "L", "M",
       "N", "O", "P", "Q", "R", "S", "T", "U", "V", "W", "X", "Y", "Z" >>

LowerCase ==
    << "a", "b", "c", "d", "e", "f", "g", "h", "i", "j", "k", "l", "m",
       "n", "o", "p", "q", "r", "s", "t", "u", "v", "w", "x", "y", "z" >>

lower_char(c) ==
    IF \E k \in 1..Len(UpperCase) : UpperCase[k] = c
    THEN LowerCase[CHOOSE k \in 1..Len(UpperCase) : UpperCase[k] = c]
    ELSE c

lower(text) == [k \in 1..Len(text) |-> lower_char(text[k])]

\* needle in hay, for strings given as their characters
Contains(needle, hay) ==
    \E k \in 1..(Len(hay) - Len(needle) + 1) :
        SubSeq(hay, k, k + Len(needle) - 1) = needle

\* the characters of a slot time
str_chars(time_str) ==
    CASE time_str = "8:00 AM" -> <<"8", ":", "0", "0", " ", "A", "M">>
      [] time_str = "8:30 AM" -> <<"8", ":", "3", "0", " ", "A", "M">>
      [] time_str = "9:00 AM" -> <<"9", ":", "0", "0", " ", "A", "M">>
      [] time_str = "9:30 AM" -> <<"9", ":", "3", "0", " ", "A", "M">>
      [] time_str = "10:00 AM" -> <<"1", "0", ":", "0", "0", " ", "A", "M">>
      [] time_str = "10:30 AM" -> <<"1", "0", ":", "3", "0", " ", "A", "M">>
      [] time_str = "11:00 AM" -> <<"1", "1", ":", "0", "0", " ", "A", "M">>
      [] time_str = "11:30 AM" -> <<"1", "1", ":", "3", "0", " ", "A", "M">>
      [] time_str = "1:00 PM" -> <<"1", ":", "0", "0", " ", "P", "M">>
      [] time_str = "1:30 PM" -> <<"1", ":", "3", "0", " ", "P", "M">>
      [] time_str = "2:00 PM" -> <<"2", ":", "0", "0", " ", "P", "M">>
      [] time_str = "2:30 PM" -> <<"2", ":", "3", "0", " ", "P", "M">>
      [] time_str = "3:00 PM" -> <<"3", ":", "0", "0", " ", "P", "M">>
      [] time_str = "3:30 PM" -> <<"3", ":", "3", "0", " ", "P", "M">>
      [] time_str = "4:00 PM" -> <<"4", ":", "0", "0", " ", "P", "M">>

\* the code point of a character of a slot time
ord(c) ==
    CASE c = " " -> 32
      [] c = "0" -> 48 [] c = "1" -> 49 [] c = "2" -> 50 [] c = "3" -> 51
      [] c = "4" -> 52 [] c = "5" -> 53 [] c = "6" -> 54 [] c = "7" -> 55
      [] c = "8" -> 56 [] c = "9" -> 57
      [] c = ":" -> 58
      [] c = "A" -> 65 [] c = "M" -> 77 [] c = "P" -> 80

\* s < t for str: at the first position where they differ the code point
\* of s is the smaller one, or s is a proper prefix of t
str_less(s, t) ==
    \E k \in 1..(Len(t)) :
        /\ k <= Len(s) + 1
        /\ \A j \in 1..(k - 1) : s[j] = t[j]
        /\ (k = Len(s) + 1 \/ ord(s[k]) < ord(t[k]))

\* (a["date"], a["time"]) < (b["date"], b["time"]); ISO dates compare as
\* their days do
key_less(a, b) ==
    \/ a.date < b.date
    \/ a.date = b.date /\ str_less(str_chars(a.time), str_chars(b.time))

\* x put into a sorted list before the first element that is not below it
RECURSIVE insert_sorted(_, _)
insert_sorted(x, list) ==
    IF list = <<>> THEN <<x>>
    ELSE IF key_less(Head(list), x)
    THEN <<Head(list)>> \o insert_sorted(x, Tail(list))
    ELSE <<x>> \o list

\* sorted(matches, key=...): ascending and stable
RECURSIVE sorted(_)
sorted(list) ==
    IF list = <<>> THEN <<>>
    ELSE insert_sorted(Head(list), sorted(Tail(list)))

find_appointment(patient_name, patient_dob) ==
    /\ call' = Call("find_appointment",
                    [patient_name |-> patient_name, patient_dob |-> patient_dob])
    /\ LET name_lower == lower(patient_name)
           matches ==
               SelectSeq(appointments,
                         LAMBDA a :
                            /\ Contains(name_lower, lower(a.patient_name))
                            /\ (patient_dob = "" \/ a.patient_dob = patient_dob)
                            /\ a.status = "scheduled")
       IN  ret' = [matches |-> sorted(matches)]
    /\ sent' = <<>>
    /\ UNCHANGED <<appointments, waitlist, now>>

\* mutant: the entry is put at the front of the registry
add_to_waitlist_front(patient_name, patient_dob, patient_phone, appointment_type, provider, preferred_dates, notes) ==
    /\ call' = Call("add_to_waitlist",
                    [patient_name |-> patient_name, patient_dob |-> patient_dob,
                     patient_phone |-> patient_phone,
                     appointment_type |-> appointment_type,
                     provider |-> provider,
                     preferred_dates |-> preferred_dates, notes |-> notes])
    /\ \E entry_id \in WaitlistIds :
       LET entry ==
               [id |-> entry_id,
                patient_name |-> patient_name,
                patient_dob |-> patient_dob,
                patient_phone |-> patient_phone,
                provider |-> provider,
                appointment_type |-> appointment_type,
                preferred_dates |->
                    IF preferred_dates = None THEN <<>> ELSE preferred_dates[1],
                notes |-> notes,
                status |-> "waiting",
                added_at |-> now,
                offered_at |-> None]
       IN  /\ waitlist' = <<entry>> \o waitlist
           /\ ret' = entry
           /\ sent' = <<>>
           /\ UNCHANGED <<appointments, now>>

add_to_waitlist(patient_name, patient_dob, patient_phone, appointment_type, provider, preferred_dates, notes) ==
    /\ call' = Call("add_to_waitlist",
                    [patient_name |-> patient_name, patient_dob |-> patient_dob,
                     patient_phone |-> patient_phone,
                     appointment_type |-> appointment_type,
                     provider |-> provider,
                     preferred_dates |-> preferred_dates, notes |-> notes])
    /\ \E entry_id \in WaitlistIds :
       LET entry ==
               [id |-> entry_id,
                patient_name |-> patient_name,
                patient_dob |-> patient_dob,
                patient_phone |-> patient_phone,
                provider |-> provider,
                appointment_type |-> appointment_type,
                preferred_dates |->
                    IF preferred_dates = None THEN <<>> ELSE preferred_dates[1],
                notes |-> notes,
                status |-> "waiting",
                added_at |-> now,
                offered_at |-> None]
       IN  /\ waitlist' = Append(waitlist, entry)
           /\ ret' = entry
           /\ sent' = <<>>
           /\ UNCHANGED <<appointments, now>>

remove_from_waitlist(waitlist_id) ==
    /\ call' = Call("remove_from_waitlist", [waitlist_id |-> waitlist_id])
    /\ LET i == FirstWithId(waitlist, waitlist_id)
       IN  IF i = 0
           THEN /\ ret' = [removed |-> FALSE]
                /\ UNCHANGED waitlist
           ELSE /\ ret' = [removed |-> TRUE]
                /\ waitlist' = [waitlist EXCEPT ![i].status = "removed"]
    /\ sent' = <<>>
    /\ UNCHANGED <<appointments, now>>

----------------------------------------------------------------------------
(* Timed job: scheduler.py *)

\* mutant: an offer expires only after more than two hours
is_stale_after(entry, utcnow) ==
    /\ entry.status = "offered"
    /\ entry.offered_at # None
    /\ utcnow - entry.offered_at[1] > StaleHours * MinutesPerHour

\* mutant: an offer expires whatever its age
is_stale_any_age(entry, utcnow) ==
    /\ entry.status = "offered"
    /\ entry.offered_at # None

\* the test of _reset_stale_waitlist_offers on one entry; offered_at was
\* written by isoformat() and is read back by fromisoformat(), which
\* returns the instant that was written
is_stale(entry, utcnow) ==
    /\ entry.status = "offered"
    /\ entry.offered_at # None
    /\ utcnow - entry.offered_at[1] >= StaleHours * MinutesPerHour

\* mutant: the loop stops behind the first entry it resets
reset_stale_first_only(wl, utcnow) ==
    [i \in 1..Len(wl) |->
        IF /\ is_stale(wl[i], utcnow)
           /\ \A j \in 1..(i - 1) : ~is_stale(wl[j], utcnow)
        THEN [wl[i] EXCEPT !.status = "waiting", !.offered_at = None]
        ELSE wl[i]]

\* mutant: an entry whose offer expired goes to the back of the list
reset_stale_requeue(wl, utcnow) ==
    LET stale == SelectSeq(wl, LAMBDA entry : is_stale(entry, utcnow))
    IN  SelectSeq(wl, LAMBDA entry : ~is_stale(entry, utcnow))
        \o [i \in 1..Len(stale) |->
               [stale[i] EXCEPT !.status = "waiting", !.offered_at = None]]

\* the loop of the job over the registry
reset_stale(wl, utcnow) ==
    [i \in 1..Len(wl) |->
        IF is_stale(wl[i], utcnow)
        THEN [wl[i] EXCEPT !.status = "waiting", !.offered_at = None]
        ELSE wl[i]]

\* the entries the job logs as reset, as they were
logged_reset(wl, utcnow) ==
    SelectSeq(wl, LAMBDA entry : is_stale(entry, utcnow))

\* the job returns nothing; ret keeps what it logs
_reset_stale_waitlist_offers ==
    /\ call' = Call("_reset_stale_waitlist_offers", <<>>)
    /\ waitlist' = reset_stale(waitlist, now)
    /\ ret' = [reset |-> logged_reset(waitlist, now)]
    /\ sent' = <<>>
    /\ UNCHANGED <<appointments, now>>

\* the appointments a daily job gets to the dispatcher with: those
\* scheduled on the day whose phone number is true, in ledger order
cohort(appts, day) ==
    SelectSeq(appts, LAMBDA appt : /\ appt.date = day
                                   /\ appt.status = "scheduled"
                                   /\ truthy(appt.patient_phone))

\* one dispatcher call for each record.
\* failing: the appointments for which messages.create fails.
JobNotifications(kind, records, failing) ==
    [i \in 1..Len(records) |->
        Notification(kind, records[i].patient_phone,
                     _send(records[i].patient_phone,
                           records[i].id \notin failing))]

\* today: date.today().  No try around the dispatcher call: a call that
\* raises ends the job.  The job returns nothing; ret keeps the count it
\* logs, which it does not reach when a call raised.
_send_sms_reminders(today) ==
    /\ call' = Call("_send_sms_reminders", [today |-> today])
    /\ LET records == cohort(appointments, today + 1)
       IN  /\ \E failing \in SUBSET Keys(records) :
                 sent' = JobNotifications("reminder", UntilRaise(records),
                                          failing)
                         \o RaisedAt(records, "reminder")
           /\ ret' = IF UntilRaise(records) = records
                     THEN [count |-> Len(records)]
                     ELSE [raised |-> TRUE]
    /\ UNCHANGED <<appointments, waitlist, now>>

\* assistant_id: settings.vapi_reminder_assistant_id or
\* settings.vapi_assistant_id, "" unless configured.
\* failing: the appointments for which create_outbound_call raises; the
\* job catches it and goes on.
_send_reminder_calls(today, assistant_id) ==
    /\ call' = Call("_send_reminder_calls",
                    [today |-> today, assistant_id |-> assistant_id])
    /\ LET records == IF assistant_id = "" THEN <<>>
                      ELSE cohort(appointments, today + 1)
       IN  \E failing \in SUBSET Keys(records) :
             sent' = [i \in 1..Len(records) |->
                         Notification("reminder_call",
                                      records[i].patient_phone,
                                      records[i].id \notin failing)]
    /\ ret' = [none |-> TRUE]
    /\ UNCHANGED <<appointments, waitlist, now>>

_send_followup_sms(today) ==
    /\ call' = Call("_send_followup_sms", [today |-> today])
    /\ LET records == cohort(appointments, today - 1)
       IN  /\ \E failing \in SUBSET Keys(records) :
                 sent' = JobNotifications("followup", UntilRaise(records),
                                          failing)
                         \o RaisedAt(records, "followup")
           /\ ret' = IF UntilRaise(records) = records
                     THEN [count |-> Len(records)]
                     ELSE [raised |-> TRUE]
    /\ UNCHANGED <<appointments, waitlist, now>>

----------------------------------------------------------------------------
(* Inputs explored *)

GoodPhone == Str(<<"+", "1">>)

BadPhone == Str(<<"5", "5">>)

\* a number where a str is expected
NumberPhone == Number(5551234)

\* schedule_appointment requests: two patients asking for the same triple,
\* and the same date and time with another provider
BookingRequests ==
    { [name |-> "Ann Lee", dob |-> "1980-01-01", phone |-> GoodPhone,
       provider |-> PROVIDER_NAMES[1], date |-> 10, time |-> SLOT_TIMES[3],
       is_new_patient |-> TRUE],
      [name |-> "Bob Roe", dob |-> "1975-05-05", phone |-> BadPhone,
       provider |-> PROVIDER_NAMES[1], date |-> 10, time |-> SLOT_TIMES[3],
       is_new_patient |-> FALSE],
      [name |-> "Bob Roe", dob |-> "1975-05-05", phone |-> GoodPhone,
       provider |-> PROVIDER_NAMES[2], date |-> 10, time |-> SLOT_TIMES[3],
       is_new_patient |-> FALSE] }

\* reschedule_appointment targets: the slot the requests book, and another
NewSlots ==
    { [date |-> 10, time |-> SLOT_TIMES[3]],
      [date |-> 11, time |-> SLOT_TIMES[4]] }

\* cancel_appointment requests, with and without a reason
CancelRequests ==
    { [id |-> "1A2B3C4D", reason |-> ""],
      [id |-> "9F8E7D6C", reason |-> "sick"],
      [id |-> UnknownId, reason |-> ""] }

\* add_to_waitlist requests: any provider and any date; one provider and
\* one date
EnrollRequests ==
    { [name |-> "Cy Orr", phone |-> GoodPhone,
       provider |-> None, preferred_dates |-> None],
      [name |-> "Di Poe", phone |-> Str(<<>>),
       provider |-> Some(PROVIDER_NAMES[1]), preferred_dates |-> Some(<<10>>)] }

\* UTC offsets of timezones, in hours: America/New_York in winter (the
\* default of settings.office_timezone), UTC, Australia/Sydney in winter
NewYork == -5

Utc == 0

Sydney == 10

\* the office in New York, the process in a container on UTC
DefaultZones ==
    [office |-> NewYork * MinutesPerHour, process |-> Utc * MinutesPerHour]

Init ==
    /\ appointments = <<>>
    /\ waitlist = <<>>
    /\ now = 0
    /\ call = Call("init", <<>>)
    /\ ret = [none |-> TRUE]
    /\ sent = <<>>
    /\ sessions = <<>>
    /\ zones = DefaultZones
    /\ expired = {}

\* the times a record was rescheduled: one audit note each
Reschedules(appt) ==
    Cardinality({i \in 1..Len(appt.notes) : appt.notes[i][1] = "Rescheduled to"})

\* a record is moved at most MaxReschedules times; a call that the ledger
\* refuses is explored whatever the record's history
CanReschedule(appointment_id, new_date, new_time) ==
    LET found == dict_get(appointments, appointment_id)
    IN  IF reschedule_error(found, new_date, new_time) # None THEN TRUE
        ELSE Reschedules(found[1]) < MaxReschedules

\* a tool call or a job run that belongs to no client that is followed,
\* under a configuration that stays, with no entry followed
Direct(handler) == handler /\ UNCHANGED <<sessions, zones, expired>>

Schedule ==
    \E r \in BookingRequests :
        schedule_appointment(r.name, r.dob, r.phone, r.provider, "Follow-Up",
                             r.date, r.time, "", r.is_new_patient)

Reschedule ==
    \E id \in ApptIds \cup {UnknownId}, slot \in NewSlots :
        /\ CanReschedule(id, slot.date, slot.time)
        /\ reschedule_appointment(id, slot.date, slot.time)

Cancel ==
    \E r \in CancelRequests : cancel_appointment(r.id, r.reason)

Enroll(requests, longest) ==
    \E r \in requests :
        /\ Len(waitlist) < longest
        /\ add_to_waitlist(r.name, "2000-02-02", r.phone, "Follow-Up",
                           r.provider, r.preferred_dates, "")

Remove ==
    \E id \in WaitlistIds \cup {UnknownId} : remove_from_waitlist(id)

\* The ledger under every booking request, with a short waitlist beside it
\* for its cancellations to offer to.
Next ==
    \/ Direct(Schedule)
    \/ Direct(Reschedule)
    \/ Direct(Cancel)
    \/ Direct(Enroll({r \in EnrollRequests : r.provider = None}, MaxLedgerWaitlist))

Spec == Init /\ [][Next]_vars

\* The registry beside a small ledger: one booking request, no
\* rescheduling, and a waitlist long enough for a cancellation to find more
\* matches than it offers to.
ScheduleFirst ==
    \E r \in {x \in BookingRequests : x.is_new_patient} :
        schedule_appointment(r.name, r.dob, r.phone, r.provider, "Follow-Up",
                             r.date, r.time, "", r.is_new_patient)

NextWaitlist ==
    \/ Direct(ScheduleFirst)
    \/ Direct(Cancel)
    \/ Direct(Enroll(EnrollRequests, MaxWaitlist))
    \/ Direct(Remove)

SpecWaitlist == Init /\ [][NextWaitlist]_vars

\* mark_offered and mark_booked called on their own: they return nothing
MarkOffered ==
    \E id \in WaitlistIds \cup {UnknownId} :
        /\ call' = Call("mark_offered", [waitlist_id |-> id])
        /\ waitlist' = mark_offered(waitlist, id, now)
        /\ ret' = [none |-> TRUE]
        /\ sent' = <<>>
        /\ UNCHANGED <<appointments, now>>

MarkBooked ==
    \E id \in WaitlistIds \cup {UnknownId} :
        /\ call' = Call("mark_booked", [waitlist_id |-> id])
        /\ waitlist' = mark_booked(waitlist, id)
        /\ ret' = [none |-> TRUE]
        /\ sent' = <<>>
        /\ UNCHANGED <<appointments, now>>

\* the clock readings after the first, in minutes: offers made at 0 and at
\* 1 are met 1h59m, 2h00m and 2h01m old
ClockReadings ==
    {1, StaleHours * MinutesPerHour, StaleHours * MinutesPerHour + 1}

\* time passes between two handlers
Tick ==
    \E reading \in ClockReadings :
        /\ now < reading
        /\ now' = reading
        /\ call' = Call("tick", [reading |-> reading])
        /\ ret' = [none |-> TRUE]
        /\ sent' = <<>>
        /\ UNCHANGED <<appointments, waitlist>>

\* bookings and enrollments are explored before the clock first moves
Early(handler) == now = 0 /\ handler

\* the days the jobs run on: the day before the bookings and the day after
RunDays == {9, 11}

\* the assistant of the reminder calls, configured or not
AssistantIds == {"", "asst-1"}

Reminders == \E today \in RunDays : _send_sms_reminders(today)

ReminderCalls ==
    \E today \in RunDays, assistant_id \in AssistantIds :
        _send_reminder_calls(today, assistant_id)

Followups == \E today \in RunDays : _send_followup_sms(today)

\* The registry under all of its operations, the cancellations of a small
\* ledger and the timed job, while the clock moves.
NextRegistry ==
    \/ Direct(Early(ScheduleFirst))
    \/ Direct(Cancel)
    \/ Direct(Early(Enroll({r \in EnrollRequests : r.provider = None}, MaxSweptWaitlist)))
    \/ Direct(Remove)
    \/ Direct(MarkOffered)
    \/ Direct(MarkBooked)
    \/ Direct(_reset_stale_waitlist_offers)
    \/ Direct(Tick)

SpecRegistry == Init /\ [][NextRegistry]_vars

\* the sweep, with the positions it resets added to those followed
Sweep ==
    /\ _reset_stale_waitlist_offers
    /\ expired' = expired \cup {i \in 1..Len(waitlist) : is_stale(waitlist[i], now)}
    /\ UNCHANGED <<sessions, zones>>

\* enrollments are explored again once an offer made at the first clock
\* reading has expired
Late(handler) == now >= StaleHours * MinutesPerHour /\ handler

\* The registry under enrollments before the first offer and after its
\* expiry, the cancellations of a small ledger and the sweep, while the
\* clock moves: the entries a sweep has reset are followed through the
\* cancellations after it.
NextFifo ==
    \/ Direct(Early(ScheduleFirst))
    \/ Direct(Cancel)
    \/ Direct(Early(Enroll(EnrollRequests, MaxFifoWaitlist)))
    \/ Direct(Late(Enroll(EnrollRequests, MaxFifoWaitlist)))
    \/ Sweep
    \/ Direct(Tick)

SpecFifo == Init /\ [][NextFifo]_vars

\* The four jobs of the scheduler beside the cancellations of a small
\* ledger and a waitlist for them to offer to, while the clock moves.
NextBatch ==
    \/ Direct(Early(ScheduleFirst))
    \/ Direct(Cancel)
    \/ Direct(Early(Enroll({r \in EnrollRequests : r.provider = None}, MaxSweptWaitlist)))
    \/ Direct(_reset_stale_waitlist_offers)
    \/ Direct(Tick)
    \/ Direct(Reminders)
    \/ Direct(ReminderCalls)
    \/ Direct(Followups)

SpecBatch == Init /\ [][NextBatch]_vars

\* Time without end on a clock that stays small: the clock counts from a
\* moving origin.  Past Horizon the origin moves forward and every stored
\* instant with it; an instant older than the origin stays at the origin,
\* so that its age reads Horizon, which is_stale tells from no greater age.
Horizon == StaleHours * MinutesPerHour

Rebase(instant, shift) == IF instant < shift THEN 0 ELSE instant - shift

RebaseAppointments(appts, shift) ==
    [i \in 1..Len(appts) |->
        [appts[i] EXCEPT !.created_at = Rebase(@, shift)]]

RebaseWaitlist(wl, shift) ==
    [i \in 1..Len(wl) |->
        [wl[i] EXCEPT !.added_at = Rebase(@, shift),
                      !.offered_at = IF @ = None THEN None
                                     ELSE Some(Rebase(@[1], shift))]]

\* an hour passes between two handlers, and the cron trigger, which fires
\* every thirty minutes (get_scheduler), runs the job at the new reading
Pass ==
    LET reading == now + MinutesPerHour
        shift == IF reading > Horizon THEN reading - Horizon ELSE 0
        wl == RebaseWaitlist(waitlist, shift)
    IN  /\ now' = reading - shift
        /\ appointments' = RebaseAppointments(appointments, shift)
        /\ waitlist' = reset_stale(wl, reading - shift)
        /\ call' = Call("_reset_stale_waitlist_offers", <<>>)
        /\ ret' = [reset |-> logged_reset(wl, reading - shift)]
        /\ sent' = <<>>

\* The handlers and the timed job while time passes without end: the clock
\* never stops and the job runs at least once an hour.
NextExpiry ==
    \/ Direct(ScheduleFirst)
    \/ Direct(Cancel)
    \/ Direct(Enroll({r \in EnrollRequests : r.provider = None}, MaxSweptWaitlist))
    \/ Direct(Remove)
    \/ Direct(_reset_stale_waitlist_offers)
    \/ Direct(Pass)

SpecExpiry ==
    /\ Init
    /\ [][NextExpiry]_vars
    /\ WF_vars(Direct(_reset_stale_waitlist_offers))
    /\ WF_vars(Direct(Pass))

----------------------------------------------------------------------------
(* The ledger under its queries.  Names are given as their characters,     *)
(* which find_appointment compares.                                        *)

Ann == <<"A", "n", "n">>

Joann == <<"J", "o", "a", "n", "n">>

\* ids of the bookings made before the first state
SeedIds ==
    << "5EED0001", "5EED0002", "5EED0003", "5EED0004", "5EED0005",
       "5EED0006", "5EED0007", "5EED0008", "5EED0009", "5EED000A",
       "5EED000B", "5EED000C", "5EED000D", "5EED000E", "5EED000F" >>

\* the record schedule_appointment stored for Joann, first provider, day
\* 10, k-th slot of the catalog
SeedRecord(k) ==
    [id |-> SeedIds[k],
     patient_name |-> Joann,
     patient_dob |-> "1990-09-09",
     patient_phone |-> GoodPhone,
     provider |-> PROVIDER_NAMES[1],
     appointment_type |-> "Follow-Up",
     date |-> 10,
     time |-> SLOT_TIMES[k],
     notes |-> <<<<"">>>>,
     is_new_patient |-> FALSE,
     status |-> "scheduled",
     created_at |-> 0]

\* the slots Ann asks for: the first, a later one of the morning, the
\* first of the afternoon
AskedSlots == {1, 5, 9}

\* the bookings of the first state, in the order they were made: none, all
\* the slots Ann does not ask for, the whole day
SeededLedgers ==
    { SelectSeq([k \in 1..Len(SLOT_TIMES) |-> SeedRecord(k)],
                LAMBDA record : \E k \in held : record.time = SLOT_TIMES[k])
      : held \in { {}, (1..Len(SLOT_TIMES)) \ AskedSlots,
                   1..Len(SLOT_TIMES) } }

InitSeeded ==
    /\ appointments \in SeededLedgers
    /\ waitlist = <<>>
    /\ now = 0
    /\ call = Call("init", <<>>)
    /\ ret = [none |-> TRUE]
    /\ sent = <<>>
    /\ sessions = <<>>
    /\ zones = DefaultZones
    /\ expired = {}

ScheduleAnn ==
    \E k \in AskedSlots :
        schedule_appointment(Ann, "1980-01-01", GoodPhone, PROVIDER_NAMES[1],
                             "Follow-Up", 10, SLOT_TIMES[k], "", FALSE)

\* get_available_slots requests: a date or none, a provider or none, on a
\* Tuesday, a Friday, a Saturday and a Sunday
Availability ==
    \E requested_date \in {None, Some(10)},
       provider \in {None, Some(PROVIDER_NAMES[1])},
       today \in {8, 11, 12, 13} :
        get_available_slots(requested_date, provider, today)

\* find_appointment requests: another case, with the date of birth, a
\* name nobody bears
FindRequests ==
    { [name |-> <<"A", "N", "N">>, dob |-> ""],
      [name |-> Ann, dob |-> "1980-01-01"],
      [name |-> <<"B", "o", "b">>, dob |-> ""] }

Find ==
    \E r \in FindRequests : find_appointment(r.name, r.dob)

NextQueries ==
    \/ Direct(ScheduleAnn)
    \/ Direct(Cancel)
    \/ Direct(Availability)
    \/ Direct(Find)

SpecQueries == InitSeeded /\ [][NextQueries]_vars

----------------------------------------------------------------------------
(* The registry under its matching query and its enrollments, from every   *)
(* short registry.                                                         *)

\* what the entries of the first state differ in: a preferred provider or
\* none, no preferred date, one, two, and each status
SeedChoices ==
    [provider : {None, Some(PROVIDER_NAMES[1])},
     preferred_dates : {<<>>, <<10>>, <<12, 10>>},
     status : {"waiting", "offered", "booked", "removed"}]

\* the k-th entry add_to_waitlist appended before the first state, after
\* the status changes made to it; an offer made at 0
SeedEntry(k, choice) ==
    [id |-> SeedIds[k],
     patient_name |-> "Cy Orr",
     patient_dob |-> "2000-02-02",
     patient_phone |-> GoodPhone,
     provider |-> choice.provider,
     appointment_type |-> "Follow-Up",
     preferred_dates |-> choice.preferred_dates,
     notes |-> "",
     status |-> choice.status,
     added_at |-> 0,
     offered_at |-> IF choice.status = "offered" THEN Some(0) ELSE None]

SeededRegistries ==
    UNION { { [k \in 1..n |-> SeedEntry(k, choices[k])] :
                choices \in [1..n -> SeedChoices] }
            : n \in 0..MaxSeededWaitlist }

InitMatches ==
    /\ appointments = <<>>
    /\ waitlist \in SeededRegistries
    /\ now = 0
    /\ call = Call("init", <<>>)
    /\ ret = [none |-> TRUE]
    /\ sent = <<>>
    /\ sessions = <<>>
    /\ zones = DefaultZones
    /\ expired = {}

\* find_matches called on its own, for a date and a provider of the roster
FindMatches ==
    \E date_str \in {10, 12}, provider \in {PROVIDER_NAMES[1], PROVIDER_NAMES[2]} :
        /\ call' = Call("find_matches", [date |-> date_str, provider |-> provider])
        /\ ret' = [matches |-> find_matches(waitlist, date_str, provider)]
        /\ sent' = <<>>
        /\ UNCHANGED <<appointments, waitlist, now>>

NextMatches ==
    \/ Direct(FindMatches)
    \/ Direct(Enroll(EnrollRequests, MaxSeededWaitlist + 1))

SpecMatches == InitMatches /\ [][NextMatches]_vars

----------------------------------------------------------------------------
(* The handlers that call the dispatcher, with phone numbers the           *)
(* dispatcher sends to, refuses and raises for: beside the daily jobs, and *)
(* beside a waitlist for the cancellations to offer to.                    *)

\* schedule_appointment requests for one day and time with each provider:
\* a number for a phone, a phone the dispatcher sends to, no phone
JobRequests ==
    { [name |-> "Ann Lee", dob |-> "1980-01-01", phone |-> NumberPhone,
       provider |-> PROVIDER_NAMES[1], date |-> 10, time |-> SLOT_TIMES[3],
       is_new_patient |-> TRUE],
      [name |-> "Bob Roe", dob |-> "1975-05-05", phone |-> GoodPhone,
       provider |-> PROVIDER_NAMES[2], date |-> 10, time |-> SLOT_TIMES[3],
       is_new_patient |-> FALSE],
      [name |-> "Di Poe", dob |-> "1960-06-06", phone |-> Str(<<>>),
       provider |-> PROVIDER_NAMES[3], date |-> 10, time |-> SLOT_TIMES[3],
       is_new_patient |-> FALSE] }

\* add_to_waitlist requests for any provider and any date
JobEnrollRequests ==
    { [name |-> "Cy Orr", phone |-> GoodPhone,
       provider |-> None, preferred_dates |-> None],
      [name |-> "Eve Fox", phone |-> NumberPhone,
       provider |-> None, preferred_dates |-> None] }

ScheduleJobs ==
    \E r \in JobRequests :
        schedule_appointment(r.name, r.dob, r.phone, r.provider, "Follow-Up",
                             r.date, r.time, "", r.is_new_patient)

NextJobs ==
    \/ Direct(ScheduleJobs)
    \/ Direct(Reschedule)
    \/ Direct(Cancel)
    \/ Direct(Reminders)
    \/ Direct(ReminderCalls)
    \/ Direct(Followups)

SpecJobs == Init /\ [][NextJobs]_vars

NextDispatch ==
    \/ Direct(ScheduleJobs)
    \/ Direct(Reschedule)
    \/ Direct(Cancel)
    \/ Direct(Enroll(JobEnrollRequests, MaxDispatchWaitlist))

SpecDispatch == Init /\ [][NextDispatch]_vars

----------------------------------------------------------------------------
(* Two clients after one slot.  Each asks what is available and then       *)
(* books.  tool_availability and tool_schedule await the body of the       *)
(* request and then call the ledger, which awaits nothing: on the event    *)
(* loop each tool call runs whole, and the calls of the two clients come   *)
(* in any order.                                                           *)

Bob == <<"B", "o", "b">>

Clients == {Ann, Bob}

\* a client that has not called yet and is after the k-th slot of the
\* catalog, day 10, first provider
Arrived(k) == [pc |-> "start", slot |-> k, told |-> None, result |-> None]

\* the slot is free in the first state: no booking yet, or every other
\* slot of the day booked
InitRace ==
    /\ appointments \in { ledger \in SeededLedgers :
                            Len(ledger) < Len(SLOT_TIMES) }
    /\ waitlist = <<>>
    /\ now = 0
    /\ call = Call("init", <<>>)
    /\ ret = [none |-> TRUE]
    /\ sent = <<>>
    /\ \E k \in AskedSlots : sessions = [c \in Clients |-> Arrived(k)]
    /\ zones = DefaultZones
    /\ expired = {}

AskAvailability(c) ==
    /\ sessions[c].pc = "start"
    /\ get_available_slots(Some(10), Some(PROVIDER_NAMES[1]), 8)
    /\ sessions' = [sessions EXCEPT ![c].pc = "asked", ![c].told = Some(ret')]
    /\ UNCHANGED <<zones, expired>>

Book(c) ==
    /\ sessions[c].pc = "asked"
    /\ schedule_appointment(c, "1980-01-01", GoodPhone, PROVIDER_NAMES[1],
                            "Follow-Up", 10, SLOT_TIMES[sessions[c].slot],
                            "", FALSE)
    /\ sessions' = [sessions EXCEPT ![c].pc = "done", ![c].result = Some(ret')]
    /\ UNCHANGED <<zones, expired>>

NextRace ==
    \/ \E c \in Clients : AskAvailability(c)
    \/ \E c \in Clients : Book(c)

SpecRace == InitRace /\ [][NextRace]_vars

----------------------------------------------------------------------------
(* The cron triggers of get_scheduler and the dates the jobs read *)

HoursPerDay == 24

MinutesPerDay == HoursPerDay * MinutesPerHour

\* the date and the minute of the day that a zone reads at a UTC instant
local_date(utcnow, offset) == (utcnow + offset) \div MinutesPerDay

local_minute(utcnow, offset) == (utcnow + offset) % MinutesPerDay

\* CronTrigger(hour, minute, timezone=tz): fires when the wall clock of tz
\* reads hour:minute
CronTrigger(hour, minute, tz) ==
    local_minute(now, tz) = hour * MinutesPerHour + minute

ReminderHour == 8

ReminderCallMinute == 15

FollowupHour == 9

\* date.today(): the date the zone of the process reads
date_today == local_date(now, zones.process)

CronReminders ==
    /\ CronTrigger(ReminderHour, 0, zones.office)
    /\ _send_sms_reminders(date_today)

CronReminderCalls ==
    /\ CronTrigger(ReminderHour, ReminderCallMinute, zones.office)
    /\ \E assistant_id \in AssistantIds :
          _send_reminder_calls(date_today, assistant_id)

CronFollowups ==
    /\ CronTrigger(FollowupHour, 0, zones.office)
    /\ _send_followup_sms(date_today)

\* the clock of the triggers moves by quarters of an hour, from midnight
\* UTC of the day before the bookings to the end of day LastDay
QuarterHour == 15

FirstInstant == (10 - 1) * MinutesPerDay

Elapse ==
    /\ now + QuarterHour < (LastDay + 1) * MinutesPerDay
    /\ now' = now + QuarterHour
    /\ call' = Call("tick", [reading |-> now + QuarterHour])
    /\ ret' = [none |-> TRUE]
    /\ sent' = <<>>
    /\ UNCHANGED <<appointments, waitlist>>

\* the zones a deployment may be configured with and run in
ZoneOffsets == {NewYork * MinutesPerHour, Utc * MinutesPerHour,
                Sydney * MinutesPerHour}

InitZones ==
    /\ appointments = <<>>
    /\ waitlist = <<>>
    /\ now = FirstInstant
    /\ call = Call("init", <<>>)
    /\ ret = [none |-> TRUE]
    /\ sent = <<>>
    /\ sessions = <<>>
    /\ zones \in [office : ZoneOffsets, process : ZoneOffsets]
    /\ expired = {}

\* bookings are explored before the clock first moves
AtFirst(handler) == now = FirstInstant /\ handler

\* The three daily jobs fired by their triggers over three days, in every
\* pair of office zone and process zone, beside a booking for day 10.
NextZones ==
    \/ Direct(AtFirst(ScheduleFirst))
    \/ Direct(Elapse)
    \/ Direct(CronReminders)
    \/ Direct(CronReminderCalls)
    \/ Direct(CronFollowups)

SpecZones == InitZones /\ [][NextZones]_vars

----------------------------------------------------------------------------
(* Vocabulary of the properties *)

\* the positions of the scheduled records that reference a triple
Holders(appts, date_str, provider, time_str) ==
    { i \in 1..Len(appts) :
        /\ appts[i].status = "scheduled"
        /\ appts[i].date = date_str
        /\ appts[i].provider = provider
        /\ appts[i].time = time_str }

SameTriple(a, b) ==
    a.date = b.date /\ a.provider = b.provider /\ a.time = b.time

Succeeded(r) == "success" \in DOMAIN r

Ran(op) == call.op = op

----------------------------------------------------------------------------
(* C1: in every reachable state, each (date, provider, time) triple is     *)
(* referenced by at most one appointment record with status "scheduled".   *)

C1_OneScheduledPerTriple ==
    \A i, j \in 1..Len(appointments) :
        ( /\ appointments[i].status = "scheduled"
          /\ appointments[j].status = "scheduled"
          /\ SameTriple(appointments[i], appointments[j]) ) => i = j

\* two records reference one triple, the older one cancelled, and a third
\* scheduling of the triple has just been refused
C1_Witness ==
    /\ Ran("schedule_appointment")
    /\ ret = Error("Conflict")
    /\ \E i, j \in 1..Len(appointments) :
          /\ i # j
          /\ SameTriple(appointments[i], appointments[j])
          /\ appointments[i].status = "cancelled"
          /\ appointments[j].status = "scheduled"

----------------------------------------------------------------------------
(* C2: schedule_appointment for a triple that a scheduled record holds     *)
(* returns the Conflict error, leaves the ledger as it was and sends no    *)
(* notification.                                                           *)

C2_BookingHeldSlotRefused ==
    [][ ( /\ call'.op = "schedule_appointment"
          /\ Holders(appointments, call'.args.date, call'.args.provider,
                     call'.args.time) # {} )
        => ( /\ ret' = Error("Conflict")
             /\ appointments' = appointments
             /\ sent' = <<>> ) ]_vars

C2_Witness ==
    /\ Ran("schedule_appointment")
    /\ ret = Error("Conflict")
    /\ sent = <<>>
    /\ Holders(appointments, call.args.date, call.args.provider,
               call.args.time) # {}

----------------------------------------------------------------------------
(* C3: schedule_appointment for a triple no scheduled record holds adds    *)
(* exactly one record, scheduled at that triple, and changes no record     *)
(* that was there.                                                         *)

C3_BookingFreeSlotAddsOneRecord ==
    [][ ( /\ call'.op = "schedule_appointment"
          /\ Holders(appointments, call'.args.date, call'.args.provider,
                     call'.args.time) = {} )
        => ( /\ Succeeded(ret')
             /\ Len(appointments') = Len(appointments) + 1
             /\ \A i \in 1..Len(appointments) :
                    appointments'[i] = appointments[i]
             /\ LET new == appointments'[Len(appointments')]
                IN  /\ new = ret'.appointment
                    /\ new.status = "scheduled"
                    /\ new.date = call'.args.date
                    /\ new.provider = call'.args.provider
                    /\ new.time = call'.args.time ) ]_vars

----------------------------------------------------------------------------
(* C4: the id a successful schedule_appointment assigns is the id of no    *)
(* record of the ledger, and the id add_to_waitlist assigns is the id of   *)
(* no entry of the registry (neither collection ever drops a record).      *)

C4_FreshIds ==
    [][ /\ ( call'.op = "schedule_appointment" /\ Succeeded(ret') )
            => ret'.appointment.id \notin Keys(appointments)
        /\ call'.op = "add_to_waitlist"
            => ret'.id \notin Keys(waitlist) ]_vars

----------------------------------------------------------------------------
(* C5: reschedule_appointment(id, d, t) on a scheduled appointment whose   *)
(* date is d and whose time is t returns success.                          *)

C5_RescheduleToOwnSlotSucceeds ==
    [][ ( /\ call'.op = "reschedule_appointment"
          /\ LET found == dict_get(appointments, call'.args.appointment_id)
             IN  /\ found # None
                 /\ found[1].status = "scheduled"
                 /\ found[1].date = call'.args.new_date
                 /\ found[1].time = call'.args.new_time )
        => Succeeded(ret') ]_vars

----------------------------------------------------------------------------
(* C6: reschedule_appointment returns the Conflict error when another      *)
(* scheduled appointment holds (new date, the target's provider, new       *)
(* time), and then the date, time, notes and status of both stay as they   *)
(* were.                                                                   *)

\* the positions of the other scheduled records that hold the slot a
\* reschedule of the record at position i asks for
OtherHolders(appts, i, new_date, new_time) ==
    Holders(appts, new_date, appts[i].provider, new_time) \ {i}

Position(appts, id) == CHOOSE i \in 1..Len(appts) : appts[i].id = id

SameBooking(a, b) ==
    /\ a.date = b.date
    /\ a.time = b.time
    /\ a.notes = b.notes
    /\ a.status = b.status

C6_RescheduleOntoOtherRefused ==
    [][ ( /\ call'.op = "reschedule_appointment"
          /\ call'.args.appointment_id \in Keys(appointments) )
        => LET i == Position(appointments, call'.args.appointment_id)
               others == OtherHolders(appointments, i, call'.args.new_date,
                                      call'.args.new_time)
           IN  ( appointments[i].status = "scheduled" /\ others # {} )
               => ( /\ ret' = Error("Conflict")
                    /\ Len(appointments') = Len(appointments)
                    /\ \A j \in others \cup {i} :
                          /\ appointments'[j].id = appointments[j].id
                          /\ SameBooking(appointments'[j], appointments[j]) )
      ]_vars

C6_Witness ==
    /\ Ran("reschedule_appointment")
    /\ ret = Error("Conflict")
    /\ call.args.appointment_id \in Keys(appointments)
    /\ LET i == Position(appointments, call.args.appointment_id)
       IN  /\ appointments[i].status = "scheduled"
           /\ OtherHolders(appointments, i, call.args.new_date,
                           call.args.new_time) # {}

----------------------------------------------------------------------------
(* C7: reschedule_appointment returns NotFound for an id the ledger does   *)
(* not have, and InvalidState with the record's status for a record that   *)
(* is not scheduled; either way the ledger and the waitlist stay as they   *)
(* were, so a cancelled appointment is neither moved nor revived.          *)

C7_RescheduleErrors ==
    [][ call'.op = "reschedule_appointment"
        => LET found == dict_get(appointments, call'.args.appointment_id)
           IN  /\ found = None
                    => ( /\ ret' = Error("NotFound")
                         /\ appointments' = appointments
                         /\ waitlist' = waitlist )
               /\ ( found # None /\ found[1].status # "scheduled" )
                    => ( /\ ret' = InvalidState(found[1].status)
                         /\ appointments' = appointments
                         /\ waitlist' = waitlist ) ]_vars

\* a cancelled appointment was asked to move to a free slot, beside a
\* waitlist that is not empty
C7_Witness ==
    /\ Ran("reschedule_appointment")
    /\ ret = InvalidState("cancelled")
    /\ waitlist # <<>>
    /\ LET appt == appointments[Position(appointments,
                                         call.args.appointment_id)]
       IN  /\ appt.status = "cancelled"
           /\ Holders(appointments, call.args.new_date, appt.provider,
                      call.args.new_time) = {}

----------------------------------------------------------------------------
(* C8: a successful reschedule_appointment writes only the date, the time  *)
(* and the notes of its target, which keeps its id, its provider and the   *)
(* status "scheduled"; no other record changes; no scheduled record holds  *)
(* the triple it left, and schedule_appointment for a triple no scheduled  *)
(* record holds succeeds.                                                  *)

C8_RescheduleFrame ==
    [][ /\ ( call'.op = "reschedule_appointment" /\ Succeeded(ret') )
            => LET i == Position(appointments, call'.args.appointment_id)
                   old == appointments[i]
                   new == appointments'[i]
               IN  /\ Len(appointments') = Len(appointments)
                   /\ \A j \in 1..Len(appointments) :
                          j # i => appointments'[j] = appointments[j]
                   /\ [new EXCEPT !.date = old.date, !.time = old.time,
                                  !.notes = old.notes] = old
                   /\ new.id = call'.args.appointment_id
                   /\ new.provider = old.provider
                   /\ old.status = "scheduled"
                   /\ new.status = "scheduled"
                   /\ new.date = call'.args.new_date
                   /\ new.time = call'.args.new_time
                   /\ new = ret'.appointment
                   /\ Holders(appointments', old.date, old.provider,
                              old.time) = {}
        /\ ( /\ call'.op = "schedule_appointment"
             /\ Holders(appointments, call'.args.date, call'.args.provider,
                        call'.args.time) = {} )
            => ( /\ Succeeded(ret')
                 /\ Holders(appointments', call'.args.date,
                            call'.args.provider, call'.args.time) # {} )
      ]_vars

\* an appointment was moved away and another, beside it in the ledger, has
\* just been scheduled into the triple it left
C8_Witness ==
    /\ Ran("schedule_appointment")
    /\ Succeeded(ret)
    /\ \E i \in 1..Len(appointments) :
          /\ appointments[i].id # ret.appointment.id
          /\ appointments[i].status = "scheduled"
          /\ Reschedules(appointments[i]) = 1
          /\ appointments[i].provider = ret.appointment.provider
          /\ appointments[i].date # ret.appointment.date
          /\ appointments[i].time # ret.appointment.time

----------------------------------------------------------------------------
(* C9: cancel_appointment returns NotFound for an id the ledger does not   *)
(* have and InvalidState for a cancelled appointment; a cancel of a        *)
(* cancelled appointment leaves it cancelled, offers nothing and changes   *)
(* no waitlist entry.                                                      *)

C9_CancelErrors ==
    [][ call'.op = "cancel_appointment"
        => LET found == dict_get(appointments, call'.args.appointment_id)
           IN  /\ found = None
                    => ( /\ ret' = Error("NotFound")
                         /\ appointments' = appointments
                         /\ waitlist' = waitlist
                         /\ sent' = <<>> )
               /\ ( found # None /\ found[1].status = "cancelled" )
                    => ( /\ ret' = Error("InvalidState")
                         /\ appointments' = appointments
                         /\ waitlist' = waitlist
                         /\ sent' = <<>> ) ]_vars

\* a cancelled appointment was cancelled again while an entry that matches
\* its date and provider was waiting
C9_Witness ==
    /\ Ran("cancel_appointment")
    /\ ret = Error("InvalidState")
    /\ LET appt == appointments[Position(appointments,
                                         call.args.appointment_id)]
       IN  /\ appt.status = "cancelled"
           /\ find_matches(waitlist, appt.date, appt.provider) # <<>>

----------------------------------------------------------------------------
(* C10: after a successful cancel_appointment of an appointment for date D *)
(* and provider P, with M the entries that were waiting with provider      *)
(* unset or P and preferred dates empty or containing D, in enrollment     *)
(* order: the first min(3, |M|) entries of M are offered, the other        *)
(* entries of M are still waiting, and every entry outside M has the       *)
(* status it had.                                                          *)

\* the positions of M, ascending
Matching(wl, date_str, provider) ==
    { i \in 1..Len(wl) :
        /\ wl[i].status = "waiting"
        /\ (wl[i].provider = None \/ wl[i].provider = Some(provider))
        /\ ( wl[i].preferred_dates = <<>>
             \/ \E k \in 1..Len(wl[i].preferred_dates) :
                   wl[i].preferred_dates[k] = date_str ) }

\* the first n positions of a set of positions
FirstOf(positions, n) ==
    { i \in positions : Cardinality({j \in positions : j < i}) < n }

C10_CancelOffersFirstThree ==
    [][ ( call'.op = "cancel_appointment" /\ Succeeded(ret') )
        => LET M == Matching(waitlist, ret'.appointment.date,
                             ret'.appointment.provider)
           IN  /\ Len(waitlist') = Len(waitlist)
               /\ \A i \in 1..Len(waitlist) :
                     waitlist'[i].status =
                        IF i \in FirstOf(M, 3) THEN "offered"
                        ELSE waitlist[i].status ]_vars

----------------------------------------------------------------------------
(* C11: when a scheduled appointment is cancelled, whatever its provider   *)
(* and date, every entry that was waiting with no preferred provider and   *)
(* no preferred dates becomes offered, with offered_at the time of the     *)
(* cancellation.                                                           *)

C11_OpenEntryOfferedOnCancel ==
    [][ ( call'.op = "cancel_appointment" /\ Succeeded(ret') )
        => \A i \in 1..Len(waitlist) :
              ( /\ waitlist[i].status = "waiting"
                /\ waitlist[i].provider = None
                /\ waitlist[i].preferred_dates = <<>> )
              => ( /\ waitlist'[i].status = "offered"
                   /\ waitlist'[i].offered_at = Some(now) ) ]_vars

----------------------------------------------------------------------------
(* C12: in every reachable state, offered_at of a waitlist entry is set    *)
(* if and only if its status is "offered".                                 *)

C12_OfferedAtIffOffered ==
    \A i \in 1..Len(waitlist) :
        (waitlist[i].offered_at # None) <=> (waitlist[i].status = "offered")

----------------------------------------------------------------------------
(* C13: every step that changes the status or the offered_at of a waitlist *)
(* entry takes it waiting->offered, offered->booked, offered->waiting,     *)
(* waiting->removed or offered->removed; in particular an offered entry    *)
(* never gets a new offered_at.                                            *)

AllowedStatusChanges ==
    { <<"waiting", "offered">>, <<"offered", "booked">>,
      <<"offered", "waiting">>, <<"waiting", "removed">>,
      <<"offered", "removed">> }

C13_StatusMachine ==
    [][ \A i \in 1..Len(waitlist) :
           ( \/ waitlist'[i].status # waitlist[i].status
             \/ waitlist'[i].offered_at # waitlist[i].offered_at )
           => <<waitlist[i].status, waitlist'[i].status>>
                 \in AllowedStatusChanges ]_vars

----------------------------------------------------------------------------
(* C14: an entry whose status is "booked" or "removed" keeps that status   *)
(* in every later step.                                                    *)

C14_BookedRemovedTerminal ==
    [][ \A i \in 1..Len(waitlist) :
           waitlist[i].status \in {"booked", "removed"}
           => waitlist'[i].status = waitlist[i].status ]_vars

----------------------------------------------------------------------------
(* C15: a run of the stale-offer sweep makes an offered entry waiting and  *)
(* clears its offered_at exactly when at least 120 minutes have passed     *)
(* since offered_at; every other entry is left as it was.                  *)

C15_SweepRevertsAtTwoHours ==
    [][ call'.op = "_reset_stale_waitlist_offers"
        => /\ Len(waitlist') = Len(waitlist)
           /\ \A i \in 1..Len(waitlist) :
                 IF /\ waitlist[i].status = "offered"
                    /\ waitlist[i].offered_at # None
                    /\ now - waitlist[i].offered_at[1] >= 120
                 THEN waitlist'[i] = [waitlist[i] EXCEPT
                                        !.status = "waiting",
                                        !.offered_at = None]
                 ELSE waitlist'[i] = waitlist[i] ]_vars

\* the sweep has just reverted an offer made 2h00m before and has kept one
\* made 1h59m before
C15_Witness ==
    /\ Ran("_reset_stale_waitlist_offers")
    /\ \E k \in 1..Len(ret.reset) : now - ret.reset[k].offered_at[1] = 120
    /\ \E i \in 1..Len(waitlist) :
          /\ waitlist[i].status = "offered"
          /\ now - waitlist[i].offered_at[1] = 119
----------------------------------------------------------------------------
(* C16: while the sweep keeps running and time keeps passing, every entry  *)
(* that is offered is later not offered (waiting again, booked or          *)
(* removed): no entry stays offered forever.                               *)

IsOffered(i) == i <= Len(waitlist) /\ waitlist[i].status = "offered"

C16_OfferedEventuallyLeaves ==
    \A i \in 1..MaxSweptWaitlist : IsOffered(i) ~> ~IsOffered(i)
----------------------------------------------------------------------------
(* Vocabulary of the query properties *)

\* the catalog slots no scheduled record holds for a day and a provider,
\* in catalog order
FreeInCatalog(appts, day, provider) ==
    SelectSeq(SLOT_TIMES, LAMBDA t : Holders(appts, day, provider, t) = {})

SlotIndex(time_str) == CHOOSE k \in 1..Len(SLOT_TIMES) : SLOT_TIMES[k] = time_str

\* the days and the providers a get_available_slots call examines
ExaminedDays(args) ==
    IF args.requested_date # None THEN <<args.requested_date[1]>>
    ELSE _next_business_days(args.today, 5)

ExaminedProviders(args) ==
    IF args.provider # None THEN <<args.provider[1]>> ELSE PROVIDER_NAMES

Range(list) == {list[k] : k \in 1..Len(list)}

\* the times an availability map lists for a day and a provider
ListedFor(available, day, provider) ==
    UNION { UNION { Range(available[i].slots[j].times) :
                      j \in { j0 \in 1..Len(available[i].slots) :
                                available[i].slots[j0].provider = provider } }
            : i \in { i0 \in 1..Len(available) : available[i0].day = day } }

----------------------------------------------------------------------------
(* C17: whatever the ledger, no time get_available_slots lists for a day   *)
(* and a provider is held by a scheduled appointment of that day and       *)
(* provider.                                                               *)

C17_ListedSlotsAreFree ==
    Ran("get_available_slots")
    => \A i \in 1..Len(ret.available) :
          \A j \in 1..Len(ret.available[i].slots) :
             \A k \in 1..Len(ret.available[i].slots[j].times) :
                Holders(appointments, ret.available[i].day,
                        ret.available[i].slots[j].provider,
                        ret.available[i].slots[j].times[k]) = {}

\* a provider has a scheduled appointment on a day for which other times
\* of that provider are listed
C17_Witness ==
    /\ Ran("get_available_slots")
    /\ \E i \in 1..Len(ret.available) :
          \E j \in 1..Len(ret.available[i].slots) :
             /\ ret.available[i].slots[j].times # <<>>
             /\ \E t \in Range(SLOT_TIMES) :
                   Holders(appointments, ret.available[i].day,
                           ret.available[i].slots[j].provider, t) # {}

----------------------------------------------------------------------------
(* C18: get_available_slots lists, for every day and provider it examines  *)
(* with k > 0 free slots, the first min(6, k) free slots in catalog order; *)
(* a provider with no free slot on a day has no item for that day, and a   *)
(* day on which no examined provider has a free slot is no key of the map. *)

C18_FirstSixFreePerPair ==
    Ran("get_available_slots")
    => LET days == ExaminedDays(call.args)
           providers == ExaminedProviders(call.args)
           Free(d, p) == FreeInCatalog(appointments, d, p)
           listed == ret.available
       IN  /\ [i \in 1..Len(listed) |-> listed[i].day]
                 = SelectSeq(days, LAMBDA d :
                       \E n \in 1..Len(providers) : Free(d, providers[n]) # <<>>)
           /\ \A i \in 1..Len(listed) :
                 /\ [j \in 1..Len(listed[i].slots) |->
                        listed[i].slots[j].provider]
                       = SelectSeq(providers, LAMBDA p :
                             Free(listed[i].day, p) # <<>>)
                 /\ \A j \in 1..Len(listed[i].slots) :
                       LET free == Free(listed[i].day,
                                        listed[i].slots[j].provider)
                       IN  listed[i].slots[j].times
                             = SubSeq(free, 1,
                                      IF Len(free) < 6 THEN Len(free) ELSE 6)

\* on one day, a provider with no free slot is left out and a provider
\* with more than six free slots is listed with six
C18_Witness ==
    /\ Ran("get_available_slots")
    /\ \E i \in 1..Len(ret.available) :
          /\ \E n \in 1..Len(ExaminedProviders(call.args)) :
                FreeInCatalog(appointments, ret.available[i].day,
                              ExaminedProviders(call.args)[n]) = <<>>
          /\ \E j \in 1..Len(ret.available[i].slots) :
                /\ Len(FreeInCatalog(appointments, ret.available[i].day,
                                      ret.available[i].slots[j].provider)) > 6
                /\ Len(ret.available[i].slots[j].times) = 6

----------------------------------------------------------------------------
(* C19: a booking of a triple (D, P, S) that a scheduled appointment holds *)
(* returns the Conflict error; a successful cancellation leaves the        *)
(* appointment "cancelled"; and get_available_slots(D, P), called next,    *)
(* lists S among the times of P.                                           *)

\* a successful cancel_appointment has just run and get_available_slots
\* is called next for the date and the provider of the cancelled record
QueriedAfterCancel ==
    /\ Ran("cancel_appointment")
    /\ Succeeded(ret)
    /\ call'.op = "get_available_slots"
    /\ call'.args.requested_date = Some(ret.appointment.date)
    /\ call'.args.provider = Some(ret.appointment.provider)

\* what the claim says of bookings and cancellations
BookConflictCancel ==
    /\ ( /\ call'.op = "schedule_appointment"
         /\ Holders(appointments, call'.args.date, call'.args.provider,
                    call'.args.time) # {} )
         => ret' = Error("Conflict")
    /\ ( call'.op = "cancel_appointment" /\ Succeeded(ret') )
         => /\ ret'.appointment.status = "cancelled"
            /\ dict_get(appointments', call'.args.appointment_id)
                  = Some(ret'.appointment)

C19_CancelledSlotListed ==
    [][ /\ BookConflictCancel
        /\ QueriedAfterCancel
            => ret.appointment.time
                 \in ListedFor(ret'.available, ret.appointment.date,
                               ret.appointment.provider) ]_vars

\* C19, amended: as C19, but get_available_slots(D, P) lists S exactly
\* when fewer than six free catalog slots come before S.
C19_CancelledSlotListedAmongFirstSix ==
    [][ /\ BookConflictCancel
        /\ QueriedAfterCancel
            => ( ret.appointment.time
                   \in ListedFor(ret'.available, ret.appointment.date,
                                 ret.appointment.provider)
                 <=> Cardinality(
                       { n \in 1..(SlotIndex(ret.appointment.time) - 1) :
                           Holders(appointments, ret.appointment.date,
                                   ret.appointment.provider,
                                   SLOT_TIMES[n]) = {} }) < 6 ) ]_vars

\* the slots of two cancelled appointments of one day and provider are
\* free again; the query for that day and provider lists the one and,
\* six free slots coming before it, not the other
C19_Witness ==
    /\ Ran("get_available_slots")
    /\ call.args.requested_date # None
    /\ call.args.provider # None
    /\ \E i, j \in 1..Len(appointments) :
          LET listed == ListedFor(ret.available, call.args.requested_date[1],
                                  call.args.provider[1])
              Released(a) ==
                  /\ a.status = "cancelled"
                  /\ a.date = call.args.requested_date[1]
                  /\ a.provider = call.args.provider[1]
                  /\ Holders(appointments, a.date, a.provider, a.time) = {}
          IN  /\ Released(appointments[i])
              /\ Released(appointments[j])
              /\ appointments[i].time \in listed
              /\ appointments[j].time \notin listed

----------------------------------------------------------------------------
(* C20: find_appointment returns only scheduled appointments whose name    *)
(* contains the name asked for, whatever the case, and whose date of birth *)
(* is the one asked for when one is given, in ascending order of date and, *)
(* within a date, of the position of the slot in the catalog.              *)

C20_FindScheduledInSlotOrder ==
    Ran("find_appointment")
    => LET found == ret.matches
       IN  /\ \A i \in 1..Len(found) :
                 /\ \E n \in 1..Len(appointments) : appointments[n] = found[i]
                 /\ found[i].status = "scheduled"
                 /\ Contains(lower(call.args.patient_name),
                             lower(found[i].patient_name))
                 /\ ( call.args.patient_dob = ""
                      \/ found[i].patient_dob = call.args.patient_dob )
           /\ \A i, j \in 1..Len(found) :
                 i < j
                 => \/ found[i].date < found[j].date
                    \/ /\ found[i].date = found[j].date
                       /\ SlotIndex(found[i].time) <= SlotIndex(found[j].time)

----------------------------------------------------------------------------
(* C24: an appointment that is cancelled stays cancelled and keeps its     *)
(* date and its time in every later step.                                  *)

C24_CancelledIsFinal ==
    [][ \A i \in 1..Len(appointments) :
           appointments[i].status = "cancelled"
           => /\ appointments'[i].id = appointments[i].id
              /\ appointments'[i].status = "cancelled"
              /\ appointments'[i].date = appointments[i].date
              /\ appointments'[i].time = appointments[i].time ]_vars

----------------------------------------------------------------------------
(* C25: no step deletes a record: the ledger and the registry never get    *)
(* shorter, every appointment record and every waitlist entry stays the    *)
(* record of the booking or enrollment that created it, and the entries    *)
(* of the registry keep their order.                                       *)

\* the fields no operation writes once the record is made
SameAppointment(a, b) ==
    /\ a.id = b.id
    /\ a.patient_name = b.patient_name
    /\ a.patient_dob = b.patient_dob
    /\ a.patient_phone = b.patient_phone
    /\ a.provider = b.provider
    /\ a.appointment_type = b.appointment_type
    /\ a.is_new_patient = b.is_new_patient
    /\ a.created_at = b.created_at

SameEntry(a, b) ==
    [a EXCEPT !.status = b.status, !.offered_at = b.offered_at] = b

C25_RecordsOnlyAdded ==
    [][ /\ Len(appointments') >= Len(appointments)
        /\ \A i \in 1..Len(appointments) :
              SameAppointment(appointments[i], appointments'[i])
        /\ Len(waitlist') >= Len(waitlist)
        /\ \A i \in 1..Len(waitlist) :
              SameEntry(waitlist[i], waitlist'[i]) ]_vars

----------------------------------------------------------------------------
(* C21: find_matches returns the entries that are waiting, whose provider  *)
(* is unset or the one asked and whose preferred dates are empty or hold   *)
(* the date asked, in the order of the registry and no other entry, and    *)
(* leaves the registry as it was.                                          *)

\* list is the entries of wl at the positions, in ascending position
InOrder(list, wl, positions) ==
    /\ Len(list) = Cardinality(positions)
    /\ \A p \in positions :
          list[Cardinality({q \in positions : q <= p})] = wl[p]

C21_FindMatchesWaitingInOrder ==
    [][ call'.op = "find_matches"
        => /\ InOrder(ret'.matches, waitlist,
                      Matching(waitlist, call'.args.date, call'.args.provider))
           /\ \A k \in 1..Len(ret'.matches) :
                 ret'.matches[k].status = "waiting"
           /\ waitlist' = waitlist ]_vars

\* two of three entries returned, the one between them left out for its
\* status alone
C21_Witness ==
    /\ Ran("find_matches")
    /\ Len(waitlist) = 3
    /\ ret.matches = <<waitlist[1], waitlist[3]>>
    /\ waitlist[2].status \in {"offered", "booked", "removed"}
    /\ waitlist[2].provider = None
    /\ waitlist[2].preferred_dates = <<>>

----------------------------------------------------------------------------
(* C30: add_to_waitlist returns the entry it made, which is waiting with   *)
(* no offer instant and is the last of the registry, one entry longer,     *)
(* whose other entries are as they were.                                   *)

C30_EnrollAppendsWaiting ==
    [][ call'.op = "add_to_waitlist"
        => /\ Len(waitlist') = Len(waitlist) + 1
           /\ SubSeq(waitlist', 1, Len(waitlist)) = waitlist
           /\ waitlist'[Len(waitlist')].status = "waiting"
           /\ waitlist'[Len(waitlist')].offered_at = None
           /\ waitlist'[Len(waitlist')].patient_name = call'.args.patient_name
           /\ ret' = waitlist'[Len(waitlist')] ]_vars

\* an entry appended behind an offered one and a removed one
C30_Witness ==
    /\ Ran("add_to_waitlist")
    /\ Len(waitlist) = 3
    /\ waitlist[1].status = "offered"
    /\ waitlist[2].status = "removed"
    /\ waitlist[3] = ret
    /\ ret.status = "waiting"

----------------------------------------------------------------------------
(* C22: when a dispatcher call of schedule_appointment,                    *)
(* reschedule_appointment or cancel_appointment returns False or raises,   *)
(* offers to the waitlist included, the call still succeeds and its write  *)
(* is in the ledger: the new scheduled record, the new date and time, the  *)
(* status "cancelled".                                                     *)

Failed(notification) ==
    IF "raised" \in DOMAIN notification THEN TRUE ELSE ~notification.ok

DispatchFailed(notifications) ==
    \E k \in 1..Len(notifications) : Failed(notifications[k])

C22_DispatchFailureKeepsMutation ==
    [][ DispatchFailed(sent')
        => /\ call'.op = "schedule_appointment"
              => /\ Succeeded(ret')
                 /\ ret'.appointment.status = "scheduled"
                 /\ SameTriple(ret'.appointment, call'.args)
                 /\ dict_get(appointments', ret'.appointment.id)
                       = Some(ret'.appointment)
           /\ call'.op = "reschedule_appointment"
              => /\ Succeeded(ret')
                 /\ ret'.appointment.date = call'.args.new_date
                 /\ ret'.appointment.time = call'.args.new_time
                 /\ dict_get(appointments', call'.args.appointment_id)
                       = Some(ret'.appointment)
           /\ call'.op = "cancel_appointment"
              => /\ Succeeded(ret')
                 /\ ret'.appointment.status = "cancelled"
                 /\ dict_get(appointments', call'.args.appointment_id)
                       = Some(ret'.appointment) ]_vars

\* a cancellation that succeeded although the notification of the patient
\* raised and the offer to the waitlist raised
C22_Witness ==
    /\ Ran("cancel_appointment")
    /\ Succeeded(ret)
    /\ dict_get(appointments, call.args.appointment_id)[1].status = "cancelled"
    /\ sent = <<Raised("cancelled", NumberPhone),
                Raised("waitlist_offer", NumberPhone)>>
    /\ \E i \in 1..Len(waitlist) : waitlist[i].status = "waiting"

----------------------------------------------------------------------------
(* Vocabulary of the job properties *)

\* the scheduled appointments of a day, in ledger order
ScheduledOn(appts, day) ==
    SelectSeq(appts, LAMBDA appt : appt.date = day /\ appt.status = "scheduled")

\* those of them that have a phone number
WithPhone(records) ==
    SelectSeq(records, LAMBDA appt : truthy(appt.patient_phone))

\* one dispatcher call of the kind for each record, in order, made to the
\* phone number of the record, and no other call
OneEach(notifications, kind, records) ==
    /\ Len(notifications) = Len(records)
    /\ \A k \in 1..Len(records) :
          /\ notifications[k].kind = kind
          /\ notifications[k].to = records[k].patient_phone

----------------------------------------------------------------------------
(* C26: a run of the reminder SMS job calls the dispatcher once for each   *)
(* appointment that is scheduled on the day after the run date, and for    *)
(* no other appointment.                                                   *)

C26_RemindersForTomorrow ==
    [][ call'.op = "_send_sms_reminders"
        => OneEach(sent', "reminder",
                   ScheduledOn(appointments, call'.args.today + 1)) ]_vars

----------------------------------------------------------------------------
(* C27: a run of the follow-up job calls the dispatcher once for each      *)
(* appointment that is scheduled on the day before the run date, and for   *)
(* no other appointment.                                                   *)

C27_FollowupsForYesterday ==
    [][ call'.op = "_send_followup_sms"
        => OneEach(sent', "followup",
                   ScheduledOn(appointments, call'.args.today - 1)) ]_vars

----------------------------------------------------------------------------
(* C28: a run of a daily job gets to every appointment of its cohort that  *)
(* has a phone number, whatever became of the calls made for the others:   *)
(* one dispatcher call, or one outbound call, for each of them.            *)

C28_FailureDoesNotAbortRun ==
    [][ /\ call'.op = "_send_sms_reminders"
           => OneEach(sent', "reminder",
                      WithPhone(ScheduledOn(appointments,
                                            call'.args.today + 1)))
        /\ (call'.op = "_send_reminder_calls" /\ call'.args.assistant_id # "")
           => OneEach(sent', "reminder_call",
                      WithPhone(ScheduledOn(appointments,
                                            call'.args.today + 1)))
        /\ call'.op = "_send_followup_sms"
           => OneEach(sent', "followup",
                      WithPhone(ScheduledOn(appointments,
                                            call'.args.today - 1))) ]_vars

----------------------------------------------------------------------------
(* C29: a run of the reminder, reminder-call or follow-up job leaves every *)
(* appointment and every waitlist entry as it was, a run of one of them    *)
(* right after a run with the same date and settings calls for the same    *)
(* appointments, and a run of the stale-offer sweep right after another    *)
(* leaves the registry as the first run left it.                           *)

DailyJobs == {"_send_sms_reminders", "_send_reminder_calls", "_send_followup_sms"}

Recipients(notifications) ==
    [k \in 1..Len(notifications) |-> notifications[k].to]

C29_JobsSafeBackToBack ==
    [][ /\ call'.op \in DailyJobs
           => appointments' = appointments /\ waitlist' = waitlist
        /\ (call.op \in DailyJobs /\ call' = call)
           => Recipients(sent') = Recipients(sent)
        /\ ( /\ call.op = "_reset_stale_waitlist_offers"
             /\ call'.op = "_reset_stale_waitlist_offers" )
           => waitlist' = waitlist ]_vars

\* a sweep has just put two offers back, beside a scheduled appointment
\* for the daily jobs to call about
C29_Witness ==
    /\ Ran("_reset_stale_waitlist_offers")
    /\ Len(ret.reset) = 2
    /\ \A i \in 1..Len(waitlist) : waitlist[i].status = "waiting"
    /\ \E i \in 1..Len(appointments) : appointments[i].status = "scheduled"

----------------------------------------------------------------------------
(* C23: of two clients that each ask for the availability and then book    *)
(* the same free triple, whatever the order of their calls, one is told    *)
(* its booking succeeded and the other gets the Conflict error, and the    *)
(* ledger never holds two scheduled records of the triple.                 *)

C23_ExactlyOneBookingWins ==
    /\ \A c \in Clients :
          Cardinality(Holders(appointments, 10, PROVIDER_NAMES[1],
                              SLOT_TIMES[sessions[c].slot])) <= 1
    /\ (\A c \in Clients : sessions[c].pc = "done")
       => \E winner \in Clients :
             /\ Succeeded(sessions[winner].result[1])
             /\ Cardinality(Holders(appointments, 10, PROVIDER_NAMES[1],
                                    SLOT_TIMES[sessions[winner].slot])) = 1
             /\ \A c \in Clients \ {winner} :
                   sessions[c].result[1] = Error("Conflict")

\* both clients were told the slot is free, both have booked, and the
\* second was refused
C23_Witness ==
    /\ \A c \in Clients :
          /\ sessions[c].pc = "done"
          /\ SLOT_TIMES[sessions[c].slot]
                \in ListedFor(sessions[c].told[1].available, 10,
                              PROVIDER_NAMES[1])
    /\ \E c \in Clients : sessions[c].result[1] = Error("Conflict")
----------------------------------------------------------------------------
(* The registry's operations by id *)

ById == {"mark_offered", "mark_booked", "remove_from_waitlist"}

HasId(wl, waitlist_id) == \E i \in 1..Len(wl) : wl[i].id = waitlist_id

\* C31: for an id that no waitlist entry has, mark_offered and mark_booked
\* return without raising and change no entry, and remove_from_waitlist
\* returns False and changes no entry; for an id that an entry has,
\* remove_from_waitlist returns True and sets the status of an entry with
\* that id to "removed", changing nothing else.
C31_UnknownIdIsNoOp ==
    [][call'.op \in ById =>
        IF ~HasId(waitlist, call'.args.waitlist_id)
        THEN /\ waitlist' = waitlist
             /\ appointments' = appointments
             /\ "raised" \notin DOMAIN ret'
             /\ call'.op = "remove_from_waitlist" => ret' = [removed |-> FALSE]
        ELSE call'.op = "remove_from_waitlist" =>
                /\ ret' = [removed |-> TRUE]
                /\ \E i \in 1..Len(waitlist) :
                      /\ waitlist[i].id = call'.args.waitlist_id
                      /\ waitlist' = [waitlist EXCEPT ![i].status = "removed"]]_vars

\* the removal of an id that no entry has returned False, beside an entry
\* that an earlier removal by its id had set to "removed"
C31_Witness ==
    /\ Ran("remove_from_waitlist")
    /\ ~HasId(waitlist, call.args.waitlist_id)
    /\ ret = [removed |-> FALSE]
    /\ \E i \in 1..Len(waitlist) : waitlist[i].status = "removed"

----------------------------------------------------------------------------
(* Backfill is triggered by cancellation alone *)

\* C38: schedule_appointment and reschedule_appointment leave every
\* waitlist entry unchanged, whether they succeed or are refused; the slot
\* a rescheduling vacates is offered to nobody.
C38_OnlyCancelBackfills ==
    [][call'.op \in {"schedule_appointment", "reschedule_appointment"} =>
        /\ waitlist' = waitlist
        /\ \A k \in 1..Len(sent') : sent'[k].kind # "waitlist_offer"]_vars

\* a rescheduling has moved a record off day 10, vacating a slot that a
\* waiting entry matches; the entry is still waiting
C38_Witness ==
    /\ Ran("reschedule_appointment")
    /\ Succeeded(ret)
    /\ ret.appointment.date = 11
    /\ \E i \in 1..Len(waitlist) :
          IsMatch(waitlist[i], 10, ret.appointment.provider)

----------------------------------------------------------------------------
(* What the sweep leaves alone *)

\* offered, with an offer at least two hours old at this reading of the clock
OldOffer(entry, utcnow) ==
    /\ entry.status = "offered"
    /\ entry.offered_at # None
    /\ utcnow - entry.offered_at[1] >= StaleHours * MinutesPerHour

\* C39: a run of the stale-offer sweep changes only entries that are
\* "offered" with an offer at least two hours old: every "waiting",
\* "booked" and "removed" entry, every younger "offered" entry and every
\* appointment record is left as it was, and no entry is added or dropped.
C39_SweepTouchesOnlyStaleOffers ==
    [][call'.op = "_reset_stale_waitlist_offers" =>
        /\ appointments' = appointments
        /\ Len(waitlist') = Len(waitlist)
        /\ \A i \in 1..Len(waitlist) :
              ~OldOffer(waitlist[i], now) => waitlist'[i] = waitlist[i]]_vars

\* a sweep has reset one offer and left a younger one standing, beside an
\* appointment record
C39_Witness ==
    /\ Ran("_reset_stale_waitlist_offers")
    /\ Len(ret.reset) > 0
    /\ Len(appointments) > 0
    /\ \E i \in 1..Len(waitlist) :
          /\ waitlist[i].status = "offered"
          /\ waitlist[i].offered_at # None
          /\ now - waitlist[i].offered_at[1] < StaleHours * MinutesPerHour

----------------------------------------------------------------------------
(* The days of a query without a date *)

\* Monday to Friday, on the calendar whose day 0 is a Monday
IsWeekday(d) == d % DaysPerWeek < WorkDays

\* the weekdays after today up to d
WeekdaysUpTo(today, d) == {x \in (today + 1)..d : IsWeekday(x)}

\* the next five business days: the weekdays after today with at most
\* four weekdays between today and them
NextFive(today) ==
    {d \in (today + 1)..(today + DaysPerWeek + 2) :
        IsWeekday(d) /\ Cardinality(WeekdaysUpTo(today, d)) <= DaysAhead}

\* C33: when no date is requested, get_available_slots examines exactly
\* the next 5 business days: 5 distinct dates in ascending order, all
\* strictly after the current date, all Monday to Friday, with no weekday
\* between tomorrow and the last of them skipped; the days it lists are
\* those of the five on which an examined provider has a free slot, in
\* the same order.
C33_NextFiveBusinessDays ==
    (Ran("get_available_slots") /\ call.args.requested_date = None)
    => LET today == call.args.today
           days == ExaminedDays(call.args)
           listed == [i \in 1..Len(ret.available) |-> ret.available[i].day]
       IN  /\ Len(days) = DaysAhead
           /\ \A i, j \in 1..Len(days) : i < j => days[i] < days[j]
           /\ \A i \in 1..Len(days) : days[i] > today /\ IsWeekday(days[i])
           /\ \A d \in (today + 1)..days[Len(days)] :
                 IsWeekday(d) => d \in Range(days)
           /\ Range(days) = NextFive(today)
           /\ listed = SelectSeq(days, LAMBDA d :
                          \E p \in Range(ExaminedProviders(call.args)) :
                              FreeInCatalog(appointments, d, p) # <<>>)

\* a query without a date, made on a day whose morrow is no weekday, has
\* listed five days beginning after the weekend, over a ledger with a
\* scheduled appointment
C33_Witness ==
    /\ Ran("get_available_slots")
    /\ call.args.requested_date = None
    /\ ~IsWeekday(call.args.today + 1)
    /\ Len(ret.available) = DaysAhead
    /\ ret.available[1].day > call.args.today + 1
    /\ \E i \in 1..Len(appointments) : appointments[i].status = "scheduled"

----------------------------------------------------------------------------
(* An offer holds no slot *)

\* the slot of this booking call was freed by a cancellation, nobody holds
\* it, and an offer made to the waitlist is outstanding
FreedAndOffered(args) ==
    /\ Holders(appointments, args.date, args.provider, args.time) = {}
    /\ \E i \in 1..Len(appointments) :
          /\ appointments[i].status = "cancelled"
          /\ appointments[i].date = args.date
          /\ appointments[i].provider = args.provider
          /\ appointments[i].time = args.time
    /\ \E k \in 1..Len(waitlist) :
          /\ waitlist[k].status = "offered"
          /\ is_match_any_status(waitlist[k], args.date, args.provider)

----------------------------------------------------------------------------
(* Outstanding offers under later cancellations *)

\* C35: an entry that is "offered" is never selected by a later
\* cancellation: each cancel_appointment offers only to entries that were
\* "waiting", so an outstanding offer's offered_at is not stamped again and
\* the entry is left as it was.
C35_OutstandingOfferUntouched ==
    [][call'.op = "cancel_appointment" =>
        \A k \in 1..Len(waitlist) :
           waitlist[k].status = "offered" => waitlist'[k] = waitlist[k]]_vars

----------------------------------------------------------------------------
(* Offers that are not delivered, and offers that raise *)

\* the positions cancel_appointment selects for the slot of a record: the
\* first three waiting entries that match it
Selected(wl, appt) == FirstOf(Matching(wl, appt.date, appt.provider), OfferCap)

\* the selected positions the loop gets through: those before the first
\* one whose offer makes the dispatcher raise
Reached(wl, appt) ==
    {i \in Selected(wl, appt) :
        \A j \in Selected(wl, appt) :
            send_raises(wl[j].patient_phone) => i < j}

\* C37: during cancel_appointment an entry is marked "offered" whether or
\* not its offer was delivered; if the dispatcher raises while offering to
\* the k-th selected match, the matches before it are "offered" and the
\* k-th and later selected matches remain "waiting" as they were, and the
\* cancellation still succeeds.
C37_OfferedWhateverDelivery ==
    [][(/\ call'.op = "cancel_appointment"
        /\ dict_get(appointments, call'.args.appointment_id) # None
        /\ dict_get(appointments, call'.args.appointment_id)[1].status
              = "scheduled") =>
        LET appt == dict_get(appointments, call'.args.appointment_id)[1]
        IN  /\ Succeeded(ret')
            /\ ret'.appointment.status = "cancelled"
            /\ Len(waitlist') = Len(waitlist)
            /\ \A i \in Selected(waitlist, appt) :
                  IF i \in Reached(waitlist, appt)
                  THEN /\ waitlist'[i].status = "offered"
                       /\ waitlist'[i].offered_at = Some(now)
                  ELSE waitlist'[i] = waitlist[i]]_vars

----------------------------------------------------------------------------
(* Priority after an expired offer *)

----------------------------------------------------------------------------
(* The dates of the daily jobs *)

\* C32: the date from which the reminder, reminder-call and follow-up
\* jobs take "tomorrow" (the day after it) and "yesterday" (the day before
\* it) is the current date in the configured office timezone at the time
\* the job runs, whatever zone the process runs in.
C32_JobDatesInOfficeZone ==
    [][call'.op \in DailyJobs =>
        call'.args.today = local_date(now, zones.office)]_vars

============================================================================
